---- MODULE Spec2Model ----
(***************************************************************************)
(* A model of src/net/socket.cpp: the socket primitives (CreateSocket,     *)
(* ConnectSocketDirectly, CloseSocket, SetSocketNoDelay), the              *)
(* interruptible bounded receive (InterruptibleRecv) and the SOCKS5 client *)
(* (Socks5, ConnectThroughProxy, InterruptSocks5).                         *)
(*                                                                         *)
(* One thread runs the calls, one step of code at a time; the operating    *)
(* system, the peer, the clock and the thread that calls InterruptSocks5   *)
(* are the environment.                                                    *)
(***************************************************************************)
EXTENDS Integers, Sequences, FiniteSets, TLC

VARIABLES
    build,                \* how the file was compiled: "select", "poll" or "win32"
    env,                  \* the inputs of this run: peer bytes, clock steps
    interruptSocks5Recv,  \* std::atomic<bool> interruptSocks5Recv
    counter,              \* static std::atomic_int counter of ConnectThroughProxy
    now,                  \* the clock GetTimeMillis() reads
    open,                 \* the descriptors the process holds open
    sockopt,              \* the options set on each open descriptor
    created,              \* the last call of CreateSocket: its inputs and result
    prim,                 \* the last call the caller made of ConnectSocketDirectly,
                          \* CloseSocket or MillisToTimeval: inputs and result
    hSocket,              \* the caller's handle
    pc,                   \* the position of the running thread
    ir,                   \* the frame of InterruptibleRecv
    hist,                 \* history of the running InterruptibleRecv call
    s5,                   \* the frame of Socks5
    ctp,                  \* the frame of ConnectThroughProxy
    wire,                 \* the send calls made on the socket, in order
    calls,                \* history across calls: what each call used and did
    thr                   \* the threads that call ConnectThroughProxy concurrently

cfgVars == <<build, env>>
osVars == <<open, sockopt, created, prim>>
recvVars == <<ir, hist>>
proxyVars == <<s5, ctp, wire, calls>>
vars == <<build, env, interruptSocks5Recv, counter, now, open, sockopt, created, prim,
          hSocket,
          pc, ir, hist, s5, ctp, wire, calls, thr>>

(***************************************************************************)
(* Program constants.                                                      *)
(***************************************************************************)
INVALID_SOCKET == -1
SOCKET_ERROR == -1
FD_SETSIZE == 1024
maxWait == 1000
SOCKS5_RECV_TIMEOUT == 20 * 1000
\* the largest value of the int behind std::atomic_int
INT_MAX == 2147483647

(***************************************************************************)
(* Bounds of the model.                                                    *)
(***************************************************************************)
\* the longest read the test caller of InterruptibleRecv asks for
MaxLen == 3
\* the clock is not advanced by Tick beyond this many milliseconds
MaxTime == 1000
\* the history counters saturate here
MaxCount == 2
MaxCalls == 2

Builds == {"select", "poll", "win32"}
\* the handles a caller may hold: none, a low descriptor, one at the select limit
HandleSet == {INVALID_SOCKET, 3, FD_SETSIZE}
\* the timeouts the test caller passes
TimeoutSet == {-1, 0, 500, 1500}
\* the byte values the peer sends
ByteSet == {0, 1, 2, 3, 4, 5}
\* the error codes recv and connect leave in WSAGetLastError()
ErrSet == {"WSAEINPROGRESS", "WSAEWOULDBLOCK", "WSAEINVAL", "WSAEISCONN", "OTHER"}

Min(a, b) == IF a < b THEN a ELSE b
Bump(n) == Min(n + 1, MaxCount)

(***************************************************************************)
(* net/socket.h                                                            *)
(***************************************************************************)
\* IsSelectableSocket of a build that can wait on any descriptor
IsSelectableSocketAlways(s) == TRUE
\* socket.h lines 22-28
IsSelectableSocket(s) ==
    IF build \in {"poll", "win32"} THEN TRUE ELSE s < FD_SETSIZE

(***************************************************************************)
(* Descriptors: SetSocketNonBlocking 34-58, CloseSocket 210-224,           *)
(* SetSocketNoDelay 226-231.  A table t is the descriptors the process     *)
(* holds open and the options of each.                                     *)
(***************************************************************************)
Table(o, so) == [open |-> o, sockopt |-> so]
\* the descriptors socket() can return
FdPool == {3, FD_SETSIZE - 1, FD_SETSIZE}
\* a socket as socket() returns it: blocking, Nagle's algorithm on
NewSocketOpts == [nonblocking |-> FALSE, nodelay |-> FALSE]

\* socket(): a descriptor that was not open, or INVALID_SOCKET
OsSocket(fd, t) ==
    IF fd = INVALID_SOCKET
    THEN t
    ELSE Table(t.open \cup {fd},
               [x \in t.open \cup {fd} |-> IF x = fd THEN NewSocketOpts ELSE t.sockopt[x]])

\* close(): the descriptor is released whatever close returns
OsClose(fd, t) ==
    Table(t.open \ {fd}, [x \in t.open \ {fd} |-> t.sockopt[x]])

\* CloseSocket with the handle reset and the descriptor left open
CloseSocketKeepFd(h, t, ret) ==
    IF h = INVALID_SOCKET
    THEN [hSocket |-> h, ret |-> FALSE, os_close |-> FALSE, t |-> t]
    ELSE [hSocket |-> INVALID_SOCKET, ret |-> ret # SOCKET_ERROR, os_close |-> FALSE,
          t |-> t]

\* CloseSocket with the handle kept when close() fails
CloseSocketKeepOnFailure(h, t, ret) ==
    IF h = INVALID_SOCKET
    THEN [hSocket |-> h, ret |-> FALSE, os_close |-> FALSE, t |-> t]
    ELSE [hSocket |-> IF ret = SOCKET_ERROR THEN h ELSE INVALID_SOCKET,
          ret |-> ret # SOCKET_ERROR, os_close |-> TRUE, t |-> OsClose(h, t)]

\* lines 210-224; ret is what close() returns, os_close whether it was called
CloseSocket(h, t, ret) ==
    IF h = INVALID_SOCKET
    THEN [hSocket |-> h, ret |-> FALSE, os_close |-> FALSE, t |-> t]
    ELSE [hSocket |-> INVALID_SOCKET, ret |-> ret # SOCKET_ERROR, os_close |-> TRUE,
          t |-> OsClose(h, t)]

\* lines 226-231; rc is what setsockopt() returns
SetSocketNoDelay(h, t, rc) ==
    [ret |-> rc = 0,
     t |-> IF rc = 0 /\ h \in t.open
           THEN Table(t.open, [t.sockopt EXCEPT ![h].nodelay = TRUE])
           ELSE t]

\* SetSocketNonBlocking that reports success and sets nothing
SetSocketNonBlockingNoop(h, fNonBlocking, t, rc) == [ret |-> TRUE, t |-> t]

\* lines 34-58; rc is what fcntl(F_SETFL) or ioctlsocket() returns
SetSocketNonBlocking(h, fNonBlocking, t, rc) ==
    IF rc = SOCKET_ERROR
    THEN [ret |-> FALSE, t |-> t]
    ELSE [ret |-> TRUE,
          t |-> IF h \in t.open
                THEN Table(t.open, [t.sockopt EXCEPT ![h].nonblocking = fNonBlocking])
                ELSE t]

(***************************************************************************)
(* The environment of a receive: what recv() and select()/poll() may       *)
(* answer.                                                                 *)
(***************************************************************************)
\* the counts a recv asked for n bytes may return when data is there
RecvSizes(n) == {k \in 1..n : k = n \/ k = (n + 1) \div 2}
\* the reads of the program, named by where each returns to
RecvSites == {"test_done", "s5_greet", "s5_auth", "s5_reply", "s5_dlen", "s5_addr",
              "s5_port"}
\* a peer that may send any byte of S to every read, but for the bound
\* address and port of a SOCKS5 reply, which the code reads and never looks
\* at: those are zeros
Peer(S) == [site \in RecvSites |-> IF site \in {"s5_addr", "s5_port"} THEN {0} ELSE S]
\* the bytes a recv returning k bytes may deliver
PeerBytes(k) == [1..k -> env.peer[ir.ret_to]]
\* the time a readiness wait bounded by t milliseconds takes: all of t when it
\* reports no event, and otherwise none (Tick lets time pass after it)
WaitTimes(t, nRet) == IF nRet = 0 THEN {t} ELSE {0}
\* the clock of the model stops at MaxTime, but for one last step past it
InTime(d) == d = 0 \/ now <= MaxTime

(***************************************************************************)
(* InterruptibleRecv, socket.cpp 331-376.                                  *)
(***************************************************************************)
\* the value of ret where no recv has returned: it is declared in the loop body
NoRet == SOCKET_ERROR - 1
NoFrame == [len |-> 0, timeout |-> 0, curTime |-> 0, endTime |-> 0,
            data |-> <<>>, ask |-> 0, ret |-> NoRet, timeout_ms |-> 0,
            result |-> "none", ret_to |-> "idle"]
\* what the running call has done so far: the length it was called with, the
\* flag at entry, whether InterruptSocks5 wrote the flag during the call, the
\* bytes its recv calls returned, and its recv calls and waits since it was
\* entered or, if the flag was written, since the flag was last written.
\* Kept from one read of a ConnectThroughProxy call to the next: intr, the
\* flag was set during a read and not written since; seen, a recv or a wait
\* ran with the flag set and the flag was not written since.
NoHist == [len |-> 0, entryFlag |-> FALSE, written |-> FALSE, consumed |-> 0,
           recvs |-> 0, waits |-> 0, intr |-> FALSE, seen |-> FALSE, reset |-> "no"]

\* lines 333-334: the frame of a call InterruptibleRecv(data, len, timeout, hSocket)
RecvFrame(len, timeout, ret_to) ==
    [NoFrame EXCEPT !.len = len, !.timeout = timeout, !.curTime = now,
                    !.endTime = now + timeout, !.ret_to = ret_to]
\* the history is kept in the runs that are about it
Track(h) == IF env.history THEN h ELSE NoHist
RecvHist(len) ==
    Track([NoHist EXCEPT !.len = len, !.entryFlag = interruptSocks5Recv,
                         !.intr = hist.intr, !.seen = hist.seen,
                         !.reset = IF hist.reset = "pending" THEN "recv"
                                   ELSE hist.reset])

InRecv == pc \in {"ir_while", "ir_recv", "ir_wait", "ir_intr"}

\* the length line 339 passes to recv: the bytes still missing
RecvAskWhole(remaining, requested) == requested
RecvAsk(remaining, requested) == remaining

\* a return of InterruptibleRecv
IRReturn(res) ==
    /\ ir' = [ir EXCEPT !.result = res]
    /\ pc' = ir.ret_to

\* a call InterruptibleRecv(buf, len, timeout, hSocket): lines 333-334
CallRecv(len, timeout, ret_to) ==
    /\ ir' = RecvFrame(len, timeout, ret_to)
    /\ hist' = RecvHist(len)
    /\ pc' = "ir_while"

\* IR_While with the loop entered whatever len is
IR_WhileAnyLen ==
    /\ pc = "ir_while"
    /\ IF ir.curTime < ir.endTime
       THEN pc' = "ir_recv" /\ ir' = ir
       ELSE IRReturn(IF ir.len = 0 THEN "OK" ELSE "Timeout")
    /\ UNCHANGED <<cfgVars, thr, osVars, proxyVars, interruptSocks5Recv, counter, now,
                   hSocket, hist>>

\* IR_While with Timeout returned whenever the deadline has passed
IR_WhileDeadlineFirst ==
    /\ pc = "ir_while"
    /\ IF ir.len > 0 /\ ir.curTime < ir.endTime
       THEN pc' = "ir_recv" /\ ir' = ir
       ELSE IRReturn(IF ir.curTime >= ir.endTime THEN "Timeout" ELSE "OK")
    /\ UNCHANGED <<cfgVars, thr, osVars, proxyVars, interruptSocks5Recv, counter, now,
                   hSocket, hist>>

\* line 338, and line 375 when the loop ends
IR_While ==
    /\ pc = "ir_while"
    /\ IF ir.len > 0 /\ ir.curTime < ir.endTime
       THEN pc' = "ir_recv" /\ ir' = ir
       ELSE IRReturn(IF ir.len = 0 THEN "OK" ELSE "Timeout")
    /\ UNCHANGED <<cfgVars, thr, osVars, proxyVars, interruptSocks5Recv, counter, now,
                   hSocket, hist>>

\* line 351
WaitTimeoutUncapped(f) == f.endTime - f.curTime
\* WaitTimeout taken from the timeout of the call, not from what is left of it
WaitTimeoutFromEntry(f) == Min(f.timeout, maxWait)
WaitTimeout(f) == Min(f.endTime - f.curTime, maxWait)

\* one more recv call in the history
HistRecv(ret) ==
    Track([hist EXCEPT !.recvs = Bump(@), !.consumed = @ + ret,
                       !.seen = @ \/ interruptSocks5Recv])

\* lines 339-342: recv returns ret > 0 bytes
IR_RecvData(ask) ==
    \E ret \in RecvSizes(ask) : \E bytes \in PeerBytes(ret) :
        /\ hSocket \in open
        /\ ir' = [ir EXCEPT !.len = ir.len - ret, !.data = ir.data \o bytes,
                            !.ask = ask, !.ret = ret]
        /\ hist' = HistRecv(ret)
        /\ pc' = "ir_intr"

\* IR_RecvClosed with a recv of 0 bytes taken for a recv of no data yet
IR_RecvClosedIgnored(ask) ==
    /\ hSocket \in open
    /\ hist' = HistRecv(0)
    /\ ir' = [ir EXCEPT !.ask = ask, !.ret = 0]
    /\ pc' = "ir_intr"

\* lines 343-344: recv returns 0
IR_RecvClosed(ask) ==
    /\ hSocket \in open
    /\ hist' = HistRecv(0)
    /\ ir' = [ir EXCEPT !.ask = ask, !.ret = 0, !.result = "Disconnected"]
    /\ pc' = ir.ret_to

\* lines 345-351 and 367-369: recv fails
IR_RecvError(ask) ==
    \E nErr \in ErrSet :
        /\ hSocket \notin open => nErr = "OTHER"
        /\ hist' = HistRecv(0)
        /\ IF nErr \in {"WSAEINPROGRESS", "WSAEWOULDBLOCK", "WSAEINVAL"}
              /\ IsSelectableSocket(hSocket)
           THEN /\ ir' = [ir EXCEPT !.ask = ask, !.ret = SOCKET_ERROR,
                                    !.timeout_ms = WaitTimeout(ir)]
                /\ pc' = "ir_wait"
           ELSE /\ ir' = [ir EXCEPT !.ask = ask, !.ret = SOCKET_ERROR,
                                    !.result = "NetworkError"]
                /\ pc' = ir.ret_to

IR_Recv ==
    /\ pc = "ir_recv"
    /\ LET ask == RecvAsk(ir.len, hist.len)
       IN  IR_RecvData(ask) \/ IR_RecvClosed(ask) \/ IR_RecvError(ask)
    /\ UNCHANGED <<cfgVars, thr, osVars, proxyVars, interruptSocks5Recv, counter, now, hSocket>>

\* lines 352-366: the readiness wait
IR_Wait ==
    /\ pc = "ir_wait"
    /\ \E nRet \in {SOCKET_ERROR, 0, 1} : \E d \in WaitTimes(ir.timeout_ms, nRet) :
        /\ InTime(d)
        /\ now' = now + d
        /\ hist' = Track([hist EXCEPT !.waits = Bump(@),
                                      !.seen = @ \/ interruptSocks5Recv])
        /\ IF nRet = SOCKET_ERROR
           THEN IRReturn("NetworkError")
           ELSE pc' = "ir_intr" /\ ir' = ir
    /\ UNCHANGED <<cfgVars, thr, osVars, proxyVars, interruptSocks5Recv, counter, hSocket>>

\* IR_Interrupt with the flag never sampled
IR_InterruptNoSample ==
    /\ pc = "ir_intr"
    /\ ir' = [ir EXCEPT !.curTime = now, !.ask = 0, !.ret = NoRet, !.timeout_ms = 0]
    /\ pc' = "ir_while"
    /\ UNCHANGED <<cfgVars, thr, osVars, proxyVars, interruptSocks5Recv, counter, now,
                   hSocket, hist>>

\* IR_Interrupt with the flag sampled only while bytes are missing
IR_InterruptWhenMissing ==
    /\ pc = "ir_intr"
    /\ IF interruptSocks5Recv /\ ir.len > 0
       THEN IRReturn("Interrupted")
       ELSE /\ ir' = [ir EXCEPT !.curTime = now, !.ask = 0, !.ret = NoRet,
                                !.timeout_ms = 0]
            /\ pc' = "ir_while"
    /\ UNCHANGED <<cfgVars, thr, osVars, proxyVars, interruptSocks5Recv, counter, now,
                   hSocket, hist>>

\* lines 371-373; the argument of the recv and the timeout of the wait go out
\* of scope with the loop body
IR_Interrupt ==
    /\ pc = "ir_intr"
    /\ IF interruptSocks5Recv
       THEN IRReturn("Interrupted")
       ELSE /\ ir' = [ir EXCEPT !.curTime = now, !.ask = 0, !.ret = NoRet,
                                !.timeout_ms = 0]
            /\ pc' = "ir_while"
    /\ UNCHANGED <<cfgVars, thr, osVars, proxyVars, interruptSocks5Recv, counter, now,
                   hSocket, hist>>

InterruptibleRecv == IR_While \/ IR_Recv \/ IR_Wait \/ IR_Interrupt

(***************************************************************************)
(* InterruptSocks5, socket.cpp 527-530, called from another thread.        *)
(***************************************************************************)
\* what hist records of a call InterruptSocks5(interrupt); reset tells whether
\* the last call was InterruptSocks5(false) and what started after it: nothing
\* yet ("pending"), an InterruptibleRecv ("recv"), a ConnectThroughProxy ("call")
HistInterrupt(interrupt) ==
    Track([hist EXCEPT !.written = @ \/ InRecv,
                       !.recvs = IF InRecv THEN 0 ELSE @,
                       !.waits = IF InRecv THEN 0 ELSE @,
                       !.intr = interrupt /\ InRecv,
                       !.seen = FALSE,
                       !.reset = IF interrupt THEN "no"
                                 ELSE IF pc = "idle" THEN "call" ELSE "pending"])

\* InterruptSocks5 with an interrupt that cannot be taken back
InterruptSocks5Sticky(interrupt) ==
    /\ interruptSocks5Recv' = (interruptSocks5Recv \/ interrupt)
    /\ hist' = HistInterrupt(interrupt)
    /\ UNCHANGED <<cfgVars, thr, osVars, proxyVars, counter, now, hSocket, pc, ir>>

InterruptSocks5(interrupt) ==
    /\ interruptSocks5Recv' = interrupt
    /\ hist' = HistInterrupt(interrupt)
    /\ UNCHANGED <<cfgVars, thr, osVars, proxyVars, counter, now, hSocket, pc, ir>>

\* the other thread, writing the flag at any moment
Interrupter ==
    \E interrupt \in BOOLEAN :
        /\ interrupt # interruptSocks5Recv
        /\ InterruptSocks5(interrupt)

\* the other thread calls InterruptSocks5(true) between two calls of
\* ConnectThroughProxy and never takes it back
InterrupterHolding ==
    /\ pc = "idle" /\ ~interruptSocks5Recv
    /\ InterruptSocks5(TRUE)

\* the other thread, writing the flag where the code can tell: between calls
\* and right before line 371 samples it
InterrupterAtSample ==
    /\ pc \in {"idle", "ir_intr"}
    /\ Interrupter

(***************************************************************************)
(* The clock.  The code reads it at line 333, which sets the origin of a   *)
(* call, and at line 373: time that passes anywhere in the loop is seen    *)
(* there, so the clock is advanced right before that line is run.          *)
(***************************************************************************)
Tick ==
    /\ pc = "ir_intr"
    /\ \E d \in env.ticks : InTime(d) /\ now' = now + d
    /\ UNCHANGED <<cfgVars, thr, osVars, recvVars, proxyVars, interruptSocks5Recv, counter,
                   hSocket, pc>>

(***************************************************************************)
(* ConnectSocketDirectly, socket.cpp 145-208, as a function of its         *)
(* arguments and of what the operating system answers: os.connect is the   *)
(* return of connect(), os.nErr the error it leaves, os.nRet the return of *)
(* the readiness wait, os.gso the return of getsockopt() and os.soErr the  *)
(* SO_ERROR it stores.  The result tells the return value, the log sink    *)
(* written to, and whether connect() and the wait were called.  In a build *)
(* that waits with select, FD_SET at line 172 on a descriptor that is not  *)
(* below FD_SETSIZE writes outside fdset: the behaviour is undefined, and  *)
(* os.undef is what the call then returns.                                 *)
(***************************************************************************)
OsAnswers ==
    [connect : {0, SOCKET_ERROR}, nErr : ErrSet, nRet : {SOCKET_ERROR, 0, 1},
     gso : {0, SOCKET_ERROR}, soErr : {0, 111}, undef : BOOLEAN]
\* the errors of connect() after which the connection is waited for, line 163
ConnectPending == {"WSAEINPROGRESS", "WSAEWOULDBLOCK", "WSAEINVAL"}
\* the answers of the operating system before any call was made
NoOs == [connect |-> 0, nErr |-> "OTHER", nRet |-> 0, gso |-> 0, soErr |-> 0,
         undef |-> FALSE]
\* a call that is not made has no answer: the error is asked for after a
\* failed connect (161), the wait is made after a pending one (167, 173),
\* SO_ERROR is asked for after a wait that reported an event (186) and is
\* stored when getsockopt succeeded
OsConnect ==
    {os \in OsAnswers :
        /\ os.connect # SOCKET_ERROR => os.nErr = NoOs.nErr
        /\ (os.connect # SOCKET_ERROR \/ os.nErr \notin ConnectPending) =>
                os.nRet = NoOs.nRet
        /\ os.nRet \in {0, SOCKET_ERROR} => os.gso = NoOs.gso
        /\ (os.nRet \in {0, SOCKET_ERROR} \/ os.gso = SOCKET_ERROR) =>
                os.soErr = NoOs.soErr}

\* CService::GetSockAddr: an address of no routable family cannot be serialized
GetSockAddr(addr) == addr # "Unroutable"

\* lines 61-69
LogConnectFailure(manual_connection) == IF manual_connection THEN "always" ELSE "net"

\* a result that reports a failure logged under the net category as success
CsdResultByLog(ret, log, connect, wait) ==
    [ret |-> ret \/ log = "net", log |-> log, connect |-> connect, wait |-> wait]

CsdResult(ret, log, connect, wait) ==
    [ret |-> ret, log |-> log, connect |-> connect, wait |-> wait]

\* ConnectSocketDirectly that takes an already connected socket for a failure
ConnectSocketDirectlyStrict(addrConnect, h, manual_connection, os) ==
    IF h = INVALID_SOCKET
    THEN CsdResult(FALSE, "always", FALSE, FALSE)
    ELSE IF ~GetSockAddr(addrConnect)
    THEN CsdResult(FALSE, "always", FALSE, FALSE)
    ELSE IF os.connect # SOCKET_ERROR
    THEN CsdResult(TRUE, "none", TRUE, FALSE)
    ELSE IF os.nErr \in ConnectPending
    THEN IF ~IsSelectableSocket(h)
         THEN CsdResult(os.undef, "undefined", TRUE, TRUE)
         ELSE IF os.nRet = 0
         THEN CsdResult(FALSE, "net", TRUE, TRUE)
         ELSE IF os.nRet = SOCKET_ERROR
         THEN CsdResult(FALSE, "always", TRUE, TRUE)
         ELSE IF os.gso = SOCKET_ERROR
         THEN CsdResult(FALSE, "always", TRUE, TRUE)
         ELSE IF os.soErr # 0
         THEN CsdResult(FALSE, LogConnectFailure(manual_connection), TRUE, TRUE)
         ELSE CsdResult(TRUE, "none", TRUE, TRUE)
    ELSE CsdResult(FALSE, LogConnectFailure(manual_connection), TRUE, FALSE)

\* ConnectSocketDirectly that takes readiness for success, without SO_ERROR
ConnectSocketDirectlyNoQuery(addrConnect, h, manual_connection, os) ==
    IF h = INVALID_SOCKET
    THEN CsdResult(FALSE, "always", FALSE, FALSE)
    ELSE IF ~GetSockAddr(addrConnect)
    THEN CsdResult(FALSE, "always", FALSE, FALSE)
    ELSE IF os.connect # SOCKET_ERROR
    THEN CsdResult(TRUE, "none", TRUE, FALSE)
    ELSE IF os.nErr \in ConnectPending
    THEN IF ~IsSelectableSocket(h)
         THEN CsdResult(os.undef, "undefined", TRUE, TRUE)
         ELSE IF os.nRet = 0
         THEN CsdResult(FALSE, "net", TRUE, TRUE)
         ELSE IF os.nRet = SOCKET_ERROR
         THEN CsdResult(FALSE, "always", TRUE, TRUE)
         ELSE CsdResult(TRUE, "none", TRUE, TRUE)
    ELSE IF build = "win32" /\ os.nErr = "WSAEISCONN"
    THEN CsdResult(TRUE, "none", TRUE, FALSE)
    ELSE CsdResult(FALSE, LogConnectFailure(manual_connection), TRUE, FALSE)

ConnectSocketDirectly(addrConnect, h, manual_connection, os) ==
    IF h = INVALID_SOCKET
    THEN CsdResult(FALSE, "always", FALSE, FALSE)
    ELSE IF ~GetSockAddr(addrConnect)
    THEN CsdResult(FALSE, "always", FALSE, FALSE)
    ELSE IF os.connect # SOCKET_ERROR
    THEN CsdResult(TRUE, "none", TRUE, FALSE)
    ELSE IF os.nErr \in ConnectPending
    THEN IF ~IsSelectableSocket(h)
         THEN CsdResult(os.undef, "undefined", TRUE, TRUE)
         ELSE IF os.nRet = 0
         THEN CsdResult(FALSE, "net", TRUE, TRUE)
         ELSE IF os.nRet = SOCKET_ERROR
         THEN CsdResult(FALSE, "always", TRUE, TRUE)
         ELSE IF os.gso = SOCKET_ERROR
         THEN CsdResult(FALSE, "always", TRUE, TRUE)
         ELSE IF os.soErr # 0
         THEN CsdResult(FALSE, LogConnectFailure(manual_connection), TRUE, TRUE)
         ELSE CsdResult(TRUE, "none", TRUE, TRUE)
    ELSE IF build = "win32" /\ os.nErr = "WSAEISCONN"
    THEN CsdResult(TRUE, "none", TRUE, FALSE)
    ELSE CsdResult(FALSE, LogConnectFailure(manual_connection), TRUE, FALSE)

\* what the operating system may answer for handle h
OsConnectFor(h) ==
    {os \in OsConnect : h \notin open => (os.connect = SOCKET_ERROR /\ os.nErr = "OTHER")}

(***************************************************************************)
(* Socks5, socket.cpp 382-499.                                             *)
(***************************************************************************)
\* the longest username and the longest password Socks5 accepts, line 416
CredLimit == 255
\* the size of the buffer pchRet3, line 474, and the largest value of a byte
BufSize == 256
ByteMax == 255
NoAuth == [present |-> FALSE, username |-> <<>>, password |-> <<>>]
NoS5 == [strDest |-> <<>>, port |-> 0, auth |-> NoAuth, pchRet1 |-> <<>>,
         pchRetA |-> <<>>, pchRet2 |-> <<>>, pchRet3 |-> <<>>, recvr |-> "none",
         nRecv |-> 0, consumed |-> 0,
         result |-> "none", log |-> "none", at |-> "none"]

\* GreetingMsg with both methods offered whatever the credentials
GreetingMsgBothMethods(auth) == <<5, 2, 0, 2>>

\* lines 390-399
GreetingMsg(auth) == IF auth.present THEN <<5, 2, 0, 2>> ELSE <<5, 1, 0>>
\* lines 414-421
AuthMsg(auth) ==
    <<1, Len(auth.username) % 256>> \o auth.username
        \o <<Len(auth.password) % 256>> \o auth.password
\* ConnectMsg with the low byte of the port first
ConnectMsgLittleEndian(strDest, port) ==
    <<5, 1, 0, 3, Len(strDest) % 256>> \o strDest
        \o <<port % 256, (port \div 256) % 256>>

\* lines 439-447
ConnectMsg(strDest, port) ==
    <<5, 1, 0, 3, Len(strDest) % 256>> \o strDest
        \o <<(port \div 256) % 256, port % 256>>

\* what send() may return for a message of n bytes: all of it, less, or an error
SendRets(n) ==
    IF hSocket \in open THEN {n, n - 1, SOCKET_ERROR} ELSE {SOCKET_ERROR}

\* a call InterruptibleRecv(buf, len, SOCKS5_RECV_TIMEOUT, hSocket)
S5Recv(len, ret_to) == CallRecv(len, SOCKS5_RECV_TIMEOUT, ret_to)

\* S5Return with the output of ConnectThroughProxy set when Socks5 fails
S5ReturnFlagging(f, res, msg) ==
    /\ s5' = [f EXCEPT !.result = res, !.log = msg, !.at = pc]
    /\ ir' = NoFrame
    /\ hist' = Track([NoHist EXCEPT !.intr = hist.intr, !.seen = hist.seen,
                                    !.reset = hist.reset])
    /\ ctp' = [ctp EXCEPT !.result = res,
                          !.outProxyConnectionFailed =
                                IF res = "false" /\ @ # "null" THEN "true" ELSE @]
    /\ pc' = "done"

\* a return of Socks5, from the step at, after writing msg to the log ("none":
\* nothing written);
\* the frame of the InterruptibleRecv that returned before is gone, and lines
\* 516-524 of ConnectThroughProxy return what Socks5 returned
S5Return(f, res, msg) ==
    /\ s5' = [f EXCEPT !.result = res, !.log = msg, !.at = pc]
    /\ ir' = NoFrame
    /\ hist' = Track([NoHist EXCEPT !.intr = hist.intr, !.seen = hist.seen,
                                    !.reset = hist.reset])
    /\ ctp' = [ctp EXCEPT !.result = res]
    /\ pc' = "done"

\* return error(msg)
S5Error(f, msg) == S5Return(f, "false", msg)

\* S5ConnectSend with the rest of the request sent after a short write
S5ConnectSendResuming(f) ==
    LET vSocks5 == ConnectMsg(f.strDest, f.port)
    IN  \E ret \in SendRets(Len(vSocks5)) :
            IF ret = SOCKET_ERROR
            THEN /\ wire' = Append(wire, [msg |-> vSocks5, ret |-> ret])
                 /\ S5Error(f, "Error sending to proxy")
            ELSE /\ wire' = IF ret = Len(vSocks5)
                            THEN Append(wire, [msg |-> vSocks5, ret |-> ret])
                            ELSE wire \o <<[msg |-> vSocks5, ret |-> ret],
                                           [msg |-> SubSeq(vSocks5, ret + 1, Len(vSocks5)),
                                            ret |-> Len(vSocks5) - ret]>>
                 /\ s5' = f /\ ctp' = ctp /\ S5Recv(4, "s5_reply")

\* lines 439-451: the CONNECT request, then the read of the reply's first 4 bytes
S5ConnectSend(f) ==
    LET vSocks5 == ConnectMsg(f.strDest, f.port)
    IN  \E ret \in SendRets(Len(vSocks5)) :
            /\ wire' = Append(wire, [msg |-> vSocks5, ret |-> ret])
            /\ IF ret # Len(vSocks5)
               THEN S5Error(f, "Error sending to proxy")
               ELSE s5' = f /\ ctp' = ctp /\ S5Recv(4, "s5_reply")

\* lines 413-428: the username/password message, then the read of its reply
S5AuthSend(f) ==
    IF Len(f.auth.username) > CredLimit \/ Len(f.auth.password) > CredLimit
    THEN S5Error(f, "Proxy username or password too long")
              /\ UNCHANGED <<wire, calls>>
    ELSE LET vAuth == AuthMsg(f.auth)
         IN  \E ret \in SendRets(Len(vAuth)) :
                /\ wire' = Append(wire, [msg |-> vAuth, ret |-> ret])
                /\ calls' = [calls EXCEPT !.presented =
                                Append(@, <<f.auth.username, f.auth.password>>)]
                /\ IF ret # Len(vAuth)
                   THEN S5Error(f, "Error sending authentication to proxy")
                   ELSE s5' = f /\ ctp' = ctp /\ S5Recv(2, "s5_auth")

\* S5_Enter without the check of the hostname's length
S5_EnterUnchecked ==
    /\ pc = "s5_enter"
    /\ LET vSocks5Init == GreetingMsg(s5.auth)
       IN  \E ret \in SendRets(Len(vSocks5Init)) :
                /\ wire' = Append(wire, [msg |-> vSocks5Init, ret |-> ret])
                /\ IF ret # Len(vSocks5Init)
                   THEN S5Error(s5, "Error sending to proxy")
                   ELSE s5' = s5 /\ ctp' = ctp /\ S5Recv(2, "s5_greet")
    /\ UNCHANGED <<cfgVars, thr, osVars, interruptSocks5Recv, counter, now, hSocket, calls>>

\* lines 385-405: the length check, the greeting, then the read of its reply
S5_Enter ==
    /\ pc = "s5_enter"
    /\ IF Len(s5.strDest) > 255
       THEN S5Error(s5, "Hostname too long") /\ UNCHANGED wire
       ELSE LET vSocks5Init == GreetingMsg(s5.auth)
            IN  \E ret \in SendRets(Len(vSocks5Init)) :
                    /\ wire' = Append(wire, [msg |-> vSocks5Init, ret |-> ret])
                    /\ IF ret # Len(vSocks5Init)
                       THEN S5Error(s5, "Error sending to proxy")
                       ELSE s5' = s5 /\ ctp' = ctp /\ S5Recv(2, "s5_greet")
    /\ UNCHANGED <<cfgVars, thr, osVars, interruptSocks5Recv, counter, now, hSocket, calls>>

\* S5_Greet without the check of the version byte
S5_GreetAnyVersion ==
    /\ pc = "s5_greet"
    /\ LET f == [s5 EXCEPT !.recvr = ir.result, !.pchRet1 = ir.data]
       IN  IF f.recvr # "OK"
           THEN S5Return(f, "false", "InterruptibleRecv() timeout or other failure")
                    /\ UNCHANGED <<wire, calls>>
           ELSE IF f.pchRet1[2] = 2 /\ f.auth.present
           THEN S5AuthSend(f)
           ELSE IF f.pchRet1[2] = 0
           THEN S5ConnectSend(f) /\ UNCHANGED calls
           ELSE S5Error(f, "Proxy requested wrong authentication method")
                    /\ UNCHANGED <<wire, calls>>
    /\ UNCHANGED <<cfgVars, thr, osVars, interruptSocks5Recv, counter, now, hSocket>>

\* S5_Greet with method 02 taken for method 00 when there are no credentials
S5_GreetUnaskedMethod ==
    /\ pc = "s5_greet"
    /\ LET f == [s5 EXCEPT !.recvr = ir.result, !.pchRet1 = ir.data]
       IN  IF f.recvr # "OK"
           THEN S5Return(f, "false", "InterruptibleRecv() timeout or other failure")
                    /\ UNCHANGED <<wire, calls>>
           ELSE IF f.pchRet1[1] # 5
           THEN S5Error(f, "Proxy failed to initialize") /\ UNCHANGED <<wire, calls>>
           ELSE IF f.pchRet1[2] = 2 /\ f.auth.present
           THEN S5AuthSend(f)
           ELSE IF f.pchRet1[2] = 0 \/ f.pchRet1[2] = 2
           THEN S5ConnectSend(f) /\ UNCHANGED calls
           ELSE S5Error(f, "Proxy requested wrong authentication method")
                    /\ UNCHANGED <<wire, calls>>
    /\ UNCHANGED <<cfgVars, thr, osVars, interruptSocks5Recv, counter, now, hSocket>>

\* lines 405-438, and what the method chosen leads to
S5_Greet ==
    /\ pc = "s5_greet"
    /\ LET f == [s5 EXCEPT !.recvr = ir.result, !.pchRet1 = ir.data]
       IN  IF f.recvr # "OK"
           THEN S5Return(f, "false", "InterruptibleRecv() timeout or other failure")
                    /\ UNCHANGED <<wire, calls>>
           ELSE IF f.pchRet1[1] # 5
           THEN S5Error(f, "Proxy failed to initialize") /\ UNCHANGED <<wire, calls>>
           ELSE IF f.pchRet1[2] = 2 /\ f.auth.present
           THEN S5AuthSend(f)
           ELSE IF f.pchRet1[2] = 0
           THEN S5ConnectSend(f) /\ UNCHANGED calls
           ELSE S5Error(f, "Proxy requested wrong authentication method")
                    /\ UNCHANGED <<wire, calls>>
    /\ UNCHANGED <<cfgVars, thr, osVars, interruptSocks5Recv, counter, now, hSocket>>

\* S5_Auth with the credentials sent again when the proxy refuses them
S5_AuthRetry ==
    /\ pc = "s5_auth"
    /\ LET f == [s5 EXCEPT !.recvr = ir.result, !.pchRetA = ir.data]
       IN  IF f.recvr # "OK"
           THEN S5Error(f, "Error reading proxy authentication response")
                    /\ UNCHANGED <<wire, calls>>
           ELSE IF f.pchRetA[1] # 1 \/ f.pchRetA[2] # 0
           THEN S5AuthSend(f)
           ELSE S5ConnectSend(f) /\ UNCHANGED calls
    /\ UNCHANGED <<cfgVars, thr, osVars, interruptSocks5Recv, counter, now, hSocket>>

\* S5_Auth with the status byte of the reply tested alone
S5_AuthStatusOnly ==
    /\ pc = "s5_auth"
    /\ LET f == [s5 EXCEPT !.recvr = ir.result, !.pchRetA = ir.data]
       IN  IF f.recvr # "OK"
           THEN S5Error(f, "Error reading proxy authentication response")
                    /\ UNCHANGED wire
           ELSE IF f.pchRetA[2] # 0
           THEN S5Error(f, "Proxy authentication unsuccessful") /\ UNCHANGED wire
           ELSE S5ConnectSend(f)
    /\ UNCHANGED <<cfgVars, thr, osVars, interruptSocks5Recv, counter, now, hSocket, calls>>

\* lines 428-433, then the CONNECT request
\* S5_Auth going on to the CONNECT request after a failed read of the reply
S5_AuthSendingOn ==
    /\ pc = "s5_auth"
    /\ LET f == [s5 EXCEPT !.recvr = ir.result, !.pchRetA = ir.data]
       IN  IF f.recvr = "OK" /\ (f.pchRetA[1] # 1 \/ f.pchRetA[2] # 0)
           THEN S5Error(f, "Proxy authentication unsuccessful") /\ UNCHANGED wire
           ELSE S5ConnectSend(f)
    /\ UNCHANGED <<cfgVars, thr, osVars, interruptSocks5Recv, counter, now, hSocket, calls>>

S5_Auth ==
    /\ pc = "s5_auth"
    /\ LET f == [s5 EXCEPT !.recvr = ir.result, !.pchRetA = ir.data]
       IN  IF f.recvr # "OK"
           THEN S5Error(f, "Error reading proxy authentication response")
                    /\ UNCHANGED wire
           ELSE IF f.pchRetA[1] # 1 \/ f.pchRetA[2] # 0
           THEN S5Error(f, "Proxy authentication unsuccessful") /\ UNCHANGED wire
           ELSE S5ConnectSend(f)
    /\ UNCHANGED <<cfgVars, thr, osVars, interruptSocks5Recv, counter, now, hSocket, calls>>

\* S5_Reply without the test of the reserved byte
S5_ReplyAnyRsv ==
    /\ pc = "s5_reply"
    /\ LET f == [s5 EXCEPT !.recvr = ir.result, !.pchRet2 = ir.data,
                            !.consumed = Len(ir.data)]
       IN  IF f.recvr # "OK"
           THEN IF f.recvr = "Timeout"
                THEN S5Return(f, "false", "none")
                ELSE S5Error(f, "Error while reading proxy response")
           ELSE IF f.pchRet2[1] # 5
           THEN S5Error(f, "Proxy failed to accept request")
           ELSE IF f.pchRet2[2] # 0
           THEN S5Return(f, "false", "Socks5() connect failed")
           ELSE IF f.pchRet2[4] = 1
           THEN s5' = f /\ ctp' = ctp /\ S5Recv(4, "s5_addr")
           ELSE IF f.pchRet2[4] = 4
           THEN s5' = f /\ ctp' = ctp /\ S5Recv(16, "s5_addr")
           ELSE IF f.pchRet2[4] = 3
           THEN s5' = f /\ ctp' = ctp /\ S5Recv(1, "s5_dlen")
           ELSE S5Error(f, "Error: malformed proxy response")
    /\ UNCHANGED <<cfgVars, thr, osVars, interruptSocks5Recv, counter, now, hSocket, wire,
                   calls>>

\* S5_Reply with an IPv6 bound address read as 4 bytes
S5_ReplyShortIPv6 ==
    /\ pc = "s5_reply"
    /\ LET f == [s5 EXCEPT !.recvr = ir.result, !.pchRet2 = ir.data,
                            !.consumed = Len(ir.data)]
       IN  IF f.recvr # "OK"
           THEN IF f.recvr = "Timeout"
                THEN S5Return(f, "false", "none")
                ELSE S5Error(f, "Error while reading proxy response")
           ELSE IF f.pchRet2[1] # 5
           THEN S5Error(f, "Proxy failed to accept request")
           ELSE IF f.pchRet2[2] # 0
           THEN S5Return(f, "false", "Socks5() connect failed")
           ELSE IF f.pchRet2[3] # 0
           THEN S5Error(f, "Error: malformed proxy response")
           ELSE IF f.pchRet2[4] = 1 \/ f.pchRet2[4] = 4
           THEN s5' = f /\ ctp' = ctp /\ S5Recv(4, "s5_addr")
           ELSE IF f.pchRet2[4] = 3
           THEN s5' = f /\ ctp' = ctp /\ S5Recv(1, "s5_dlen")
           ELSE S5Error(f, "Error: malformed proxy response")
    /\ UNCHANGED <<cfgVars, thr, osVars, interruptSocks5Recv, counter, now, hSocket, wire,
                   calls>>

\* lines 453-490: the first 4 bytes of the reply, then the read of the address
S5_Reply ==
    /\ pc = "s5_reply"
    /\ LET f == [s5 EXCEPT !.recvr = ir.result, !.pchRet2 = ir.data,
                            !.consumed = Len(ir.data)]
       IN  IF f.recvr # "OK"
           THEN IF f.recvr = "Timeout"
                THEN S5Return(f, "false", "none")
                ELSE S5Error(f, "Error while reading proxy response")
           ELSE IF f.pchRet2[1] # 5
           THEN S5Error(f, "Proxy failed to accept request")
           ELSE IF f.pchRet2[2] # 0
           THEN S5Return(f, "false", "Socks5() connect failed")
           ELSE IF f.pchRet2[3] # 0
           THEN S5Error(f, "Error: malformed proxy response")
           ELSE IF f.pchRet2[4] = 1
           THEN s5' = f /\ ctp' = ctp /\ S5Recv(4, "s5_addr")
           ELSE IF f.pchRet2[4] = 4
           THEN s5' = f /\ ctp' = ctp /\ S5Recv(16, "s5_addr")
           ELSE IF f.pchRet2[4] = 3
           THEN s5' = f /\ ctp' = ctp /\ S5Recv(1, "s5_dlen")
           ELSE S5Error(f, "Error: malformed proxy response")
    /\ UNCHANGED <<cfgVars, thr, osVars, interruptSocks5Recv, counter, now, hSocket, wire,
                   calls>>

\* lines 481-486: the length byte of a domain name, then the read of the name
S5_DomainLen ==
    /\ pc = "s5_dlen"
    /\ LET f == [s5 EXCEPT !.recvr = ir.result, !.pchRet3 = ir.data,
                            !.nRecv = IF ir.result = "OK" THEN ir.data[1] ELSE @,
                            !.consumed = @ + Len(ir.data)]
       IN  IF f.recvr # "OK"
           THEN S5Error(f, "Error reading from proxy")
           ELSE s5' = f /\ ctp' = ctp /\ S5Recv(f.nRecv, "s5_addr")
    /\ UNCHANGED <<cfgVars, thr, osVars, interruptSocks5Recv, counter, now, hSocket, wire,
                   calls>>

\* S5_Addr with nothing logged when the read of the address times out
S5_AddrQuiet ==
    /\ pc = "s5_addr"
    /\ LET f == [s5 EXCEPT !.recvr = ir.result,
                            !.pchRet3 = ir.data \o SubSeq(@, Len(ir.data) + 1, Len(@)),
                            !.consumed = @ + Len(ir.data)]
       IN  IF f.recvr # "OK"
           THEN IF f.recvr = "Timeout"
                THEN S5Return(f, "false", "none")
                ELSE S5Error(f, "Error reading from proxy")
           ELSE s5' = f /\ ctp' = ctp /\ S5Recv(2, "s5_port")
    /\ UNCHANGED <<cfgVars, thr, osVars, interruptSocks5Recv, counter, now, hSocket, wire,
                   calls>>

\* lines 491-494: the address was read, then the read of the port
S5_Addr ==
    /\ pc = "s5_addr"
    /\ LET f == [s5 EXCEPT !.recvr = ir.result,
                            !.pchRet3 = ir.data \o SubSeq(@, Len(ir.data) + 1, Len(@)),
                            !.consumed = @ + Len(ir.data)]
       IN  IF f.recvr # "OK"
           THEN S5Error(f, "Error reading from proxy")
           ELSE s5' = f /\ ctp' = ctp /\ S5Recv(2, "s5_port")
    /\ UNCHANGED <<cfgVars, thr, osVars, interruptSocks5Recv, counter, now, hSocket, wire,
                   calls>>

\* S5_Port with the socket closed when the read fails
S5_PortClosing ==
    /\ pc = "s5_port"
    /\ LET f == [s5 EXCEPT !.recvr = ir.result,
                            !.pchRet3 = ir.data \o SubSeq(@, Len(ir.data) + 1, Len(@)),
                            !.consumed = @ + Len(ir.data)]
           c == CloseSocket(hSocket, [open |-> open, sockopt |-> sockopt], 0)
       IN  IF f.recvr # "OK"
           THEN /\ S5Error(f, "Error reading from proxy")
                /\ hSocket' = c.hSocket /\ open' = c.t.open /\ sockopt' = c.t.sockopt
           ELSE S5Return(f, "true", "none") /\ UNCHANGED <<hSocket, open, sockopt>>
    /\ UNCHANGED <<cfgVars, thr, created, prim, interruptSocks5Recv, counter, now, wire,
                   calls>>

\* lines 494-498
S5_Port ==
    /\ pc = "s5_port"
    /\ LET f == [s5 EXCEPT !.recvr = ir.result,
                            !.pchRet3 = ir.data \o SubSeq(@, Len(ir.data) + 1, Len(@)),
                            !.consumed = @ + Len(ir.data)]
       IN  IF f.recvr # "OK"
           THEN S5Error(f, "Error reading from proxy")
           ELSE S5Return(f, "true", "none")
    /\ UNCHANGED <<cfgVars, thr, osVars, interruptSocks5Recv, counter, now, hSocket, wire,
                   calls>>

Socks5 ==
    S5_Enter \/ S5_Greet \/ S5_Auth \/ S5_Reply \/ S5_DomainLen \/ S5_Addr \/ S5_Port

(***************************************************************************)
(* ConnectThroughProxy, socket.cpp 503-525.                                *)
(***************************************************************************)
NoCtp == [proxy |-> "IPv4", strDest |-> <<>>, port |-> 0, nTimeout |-> 0,
          randomize_credentials |-> FALSE, outProxyConnectionFailed |-> "null",
          outBefore |-> "null", counterBefore |-> 0,
          csd |-> CsdResult(FALSE, "none", FALSE, FALSE), result |-> "none",
          hSocket |-> INVALID_SOCKET, open |-> {}]
NoCalls == [n |-> 0, used |-> <<>>, presented |-> <<>>]

\* strprintf("%i", n)
RECURSIVE Digits(_)
Digits(n) == IF n < 10 THEN <<48 + n>> ELSE Digits(n \div 10) \o <<48 + (n % 10)>>
\* the digits of -n for n < 0, computed from -(n + 1), which fits in an int
\* when n is INT_MIN
DigitsOfNegative(n) ==
    LET m == 0 - (n + 1)
    IN  IF m < 9 THEN <<48 + m + 1>>
        ELSE IF m % 10 = 9 THEN Digits((m \div 10) + 1) \o <<48>>
        ELSE Digits(m \div 10) \o <<48 + (m % 10) + 1>>
Decimal(n) == IF n < 0 THEN <<45>> \o DigitsOfNegative(n) ELSE Digits(n)

\* counter++ on a 32-bit std::atomic_int: the value after the increment
Increment(n) == IF n = INT_MAX THEN (0 - INT_MAX) - 1 ELSE n + 1

\* CTP_Connect with the socket closed when the connect fails
CTP_ConnectClosing ==
    /\ pc = "ctp_connect"
    /\ \E os \in OsConnectFor(hSocket) :
        LET r == ConnectSocketDirectly(ctp.proxy, hSocket, TRUE, os)
            c == CloseSocket(hSocket, [open |-> open, sockopt |-> sockopt], 0)
        IN  /\ \E d \in (IF r.wait THEN WaitTimes(ctp.nTimeout, os.nRet) ELSE {0}) :
                InTime(d) /\ now' = now + d
            /\ IF ~r.ret
               THEN /\ ctp' = [ctp EXCEPT !.csd = r, !.result = "false",
                                   !.outProxyConnectionFailed =
                                        IF @ # "null" THEN "true" ELSE @]
                    /\ hSocket' = c.hSocket /\ open' = c.t.open
                    /\ sockopt' = c.t.sockopt
                    /\ pc' = "done"
               ELSE /\ ctp' = [ctp EXCEPT !.csd = r]
                    /\ UNCHANGED <<hSocket, open, sockopt>>
                    /\ pc' = "ctp_socks"
    /\ UNCHANGED <<cfgVars, thr, created, prim, recvVars, interruptSocks5Recv, counter, s5, wire,
                   calls>>

\* lines 506-510: the connect to the proxy
CTP_Connect ==
    /\ pc = "ctp_connect"
    /\ \E os \in OsConnectFor(hSocket) :
        LET r == ConnectSocketDirectly(ctp.proxy, hSocket, TRUE, os)
        IN  /\ \E d \in (IF r.wait THEN WaitTimes(ctp.nTimeout, os.nRet) ELSE {0}) :
                InTime(d) /\ now' = now + d
            /\ IF ~r.ret
               THEN /\ ctp' = [ctp EXCEPT !.csd = r, !.result = "false",
                                   !.outProxyConnectionFailed =
                                        IF @ # "null" THEN "true" ELSE @]
                    /\ pc' = "done"
               ELSE /\ ctp' = [ctp EXCEPT !.csd = r]
                    /\ pc' = "ctp_socks"
    /\ UNCHANGED <<cfgVars, thr, osVars, recvVars, interruptSocks5Recv, counter, hSocket,
                   s5, wire, calls>>

\* CTP_Socks with the counter advanced whether the credentials are made or not
CTP_SocksCounting ==
    /\ pc = "ctp_socks"
    /\ IF ctp.randomize_credentials
       THEN /\ s5' = [NoS5 EXCEPT !.strDest = ctp.strDest, !.port = ctp.port % 65536,
                                  !.auth = [present |-> TRUE,
                                            username |-> Decimal(counter),
                                            password |-> Decimal(counter)]]
            /\ calls' = [calls EXCEPT !.used = Append(@, counter)]
       ELSE /\ s5' = [NoS5 EXCEPT !.strDest = ctp.strDest, !.port = ctp.port % 65536]
            /\ UNCHANGED calls
    /\ counter' = Increment(counter)
    /\ pc' = "s5_enter"
    /\ UNCHANGED <<cfgVars, thr, osVars, recvVars, interruptSocks5Recv, now, hSocket, ctp,
                   wire>>

\* CTP_Socks with the output cleared once the proxy is reached
CTP_SocksClearing ==
    /\ pc = "ctp_socks"
    /\ IF ctp.randomize_credentials
       THEN /\ s5' = [NoS5 EXCEPT !.strDest = ctp.strDest, !.port = ctp.port % 65536,
                                  !.auth = [present |-> TRUE,
                                            username |-> Decimal(counter),
                                            password |-> Decimal(counter)]]
            /\ counter' = Increment(counter)
            /\ calls' = [calls EXCEPT !.used = Append(@, counter)]
       ELSE /\ s5' = [NoS5 EXCEPT !.strDest = ctp.strDest, !.port = ctp.port % 65536]
            /\ UNCHANGED <<counter, calls>>
    /\ ctp' = [ctp EXCEPT !.outProxyConnectionFailed = IF @ # "null" THEN "false" ELSE @]
    /\ pc' = "s5_enter"
    /\ UNCHANGED <<cfgVars, thr, osVars, recvVars, interruptSocks5Recv, now, hSocket, wire>>

\* lines 512-520: the credentials, and the call of Socks5
CTP_Socks ==
    /\ pc = "ctp_socks"
    /\ IF ctp.randomize_credentials
       THEN /\ s5' = [NoS5 EXCEPT !.strDest = ctp.strDest, !.port = ctp.port % 65536,
                                  !.auth = [present |-> TRUE,
                                            username |-> Decimal(counter),
                                            password |-> Decimal(counter)]]
            /\ counter' = Increment(counter)
            /\ calls' = [calls EXCEPT !.used = Append(@, counter)]
       ELSE /\ s5' = [NoS5 EXCEPT !.strDest = ctp.strDest, !.port = ctp.port % 65536]
            /\ UNCHANGED <<counter, calls>>
    /\ pc' = "s5_enter"
    /\ UNCHANGED <<cfgVars, thr, osVars, recvVars, interruptSocks5Recv, now, hSocket, ctp,
                   wire>>

ConnectThroughProxy == CTP_Connect \/ CTP_Socks

(***************************************************************************)
(* The caller of ConnectThroughProxy.                                      *)
(***************************************************************************)
Host(n) == [i \in 1..n |-> 97]
\* the longest hostname Socks5 accepts, line 386
HostLimit == 255

Call ==
    /\ pc = "idle"
    /\ calls.n < env.maxCalls
    /\ \E proxy \in env.proxies, strDest \in env.hosts, port \in env.ports,
          randomize \in env.randomize, out \in env.outs :
            ctp' = [NoCtp EXCEPT !.proxy = proxy, !.strDest = strDest, !.port = port,
                                 !.nTimeout = 500, !.randomize_credentials = randomize,
                                 !.outProxyConnectionFailed = out, !.outBefore = out,
                                 !.counterBefore = counter,
                                 !.hSocket = hSocket, !.open = open]
    /\ calls' = [calls EXCEPT !.n = @ + 1]
    /\ s5' = NoS5
    /\ ir' = NoFrame
    /\ hist' = Track([NoHist EXCEPT !.reset = IF hist.reset = "no" THEN "no"
                                              ELSE "call"])
    /\ wire' = <<>>
    /\ pc' = "ctp_connect"
    /\ UNCHANGED <<cfgVars, thr, osVars, interruptSocks5Recv, counter, now, hSocket>>

\* the credentials a caller of Socks5 may pass: none, or any username and
\* password, empty ones and one beyond the limit included
CredSet ==
    {NoAuth} \cup [present : {TRUE}, username : {<<>>, <<97>>}, password : {<<>>, <<98>>}]
             \cup {[present |-> TRUE, username |-> Host(CredLimit + 1),
                    password |-> <<98>>]}

\* a call Socks5(strDest, port, auth, hSocket) on a connected socket, not
\* through ConnectThroughProxy
CallSocks5 ==
    /\ pc = "idle"
    /\ calls.n < env.maxCalls
    /\ \E strDest \in env.hosts, port \in env.ports, auth \in CredSet :
            s5' = [NoS5 EXCEPT !.strDest = strDest, !.port = port, !.auth = auth]
    /\ calls' = [calls EXCEPT !.n = @ + 1]
    /\ ctp' = NoCtp
    /\ ir' = NoFrame
    /\ hist' = NoHist
    /\ wire' = <<>>
    /\ pc' = "s5_enter"
    /\ UNCHANGED <<cfgVars, thr, osVars, interruptSocks5Recv, counter, now, hSocket>>

\* the caller takes the result and is ready for its next call
Done ==
    /\ pc = "done"
    /\ pc' = "idle"
    /\ s5' = NoS5
    /\ ctp' = NoCtp
    /\ wire' = <<>>
    /\ UNCHANGED <<cfgVars, thr, osVars, recvVars, interruptSocks5Recv, counter, now,
                   hSocket, calls>>

(***************************************************************************)
(* CreateSocket, socket.cpp 108-142, and its caller.                       *)
(***************************************************************************)
\* what the OS answers during one CreateSocket
OsCreate ==
    [fd : (FdPool \ open) \cup {INVALID_SOCKET}, nodelay : {0, SOCKET_ERROR},
     fcntl : {0, SOCKET_ERROR}, close : {0, SOCKET_ERROR}]

CreateResult(ret, t, log) == [ret |-> ret, t |-> t, log |-> log]

\* lines 108-142
CreateSocket(addrConnect, os) ==
    LET t0 == Table(open, sockopt)
    IN  IF ~GetSockAddr(addrConnect)
        THEN CreateResult(INVALID_SOCKET, t0, "unsupported network")
        ELSE IF os.fd = INVALID_SOCKET
        THEN CreateResult(INVALID_SOCKET, t0, "none")
        ELSE LET t1 == OsSocket(os.fd, t0)
             IN  IF ~IsSelectableSocket(os.fd)
                 THEN CreateResult(INVALID_SOCKET, CloseSocket(os.fd, t1, os.close).t,
                                   "non-selectable socket created")
                 ELSE LET nd == SetSocketNoDelay(os.fd, t1, os.nodelay)
                          nb == SetSocketNonBlocking(os.fd, TRUE, nd.t, os.fcntl)
                          cl == CloseSocket(os.fd, nb.t, os.close)
                      IN  IF ~nb.ret
                          THEN CreateResult(cl.hSocket, cl.t,
                                            "Setting socket to non-blocking failed")
                          ELSE CreateResult(os.fd, nb.t, "none")

NoCreated == [addr |-> "none", os |-> [fd |-> INVALID_SOCKET, nodelay |-> 0,
                                       fcntl |-> 0, close |-> 0],
              ret |-> INVALID_SOCKET, open |-> {}, log |-> "none"]

\* the caller creates a socket and keeps the handle
Create ==
    /\ pc = "idle"
    /\ \E addrConnect \in {"IPv4", "IPv6", "Unroutable"} : \E os \in OsCreate :
        LET r == CreateSocket(addrConnect, os)
        IN  /\ hSocket' = r.ret
            /\ open' = r.t.open
            /\ sockopt' = r.t.sockopt
            /\ created' = [addr |-> addrConnect, os |-> os, ret |-> r.ret,
                           open |-> open, log |-> r.log]
    /\ pc' = "created"
    /\ UNCHANGED <<cfgVars, thr, recvVars, proxyVars, interruptSocks5Recv, counter, now,
                   prim>>

\* the caller has the handle CreateSocket returned
Created ==
    /\ pc = "created"
    /\ pc' = "idle"
    /\ UNCHANGED <<cfgVars, thr, osVars, recvVars, proxyVars, interruptSocks5Recv, counter,
                   now, hSocket>>

\* the caller closes the socket it holds
CallerClose ==
    /\ pc = "idle"
    /\ hSocket \in open
    /\ \E ret \in {0, SOCKET_ERROR} :
        LET c == CloseSocket(hSocket, Table(open, sockopt), ret)
        IN  /\ hSocket' = c.hSocket
            /\ open' = c.t.open
            /\ sockopt' = c.t.sockopt
    /\ UNCHANGED <<cfgVars, thr, recvVars, proxyVars, interruptSocks5Recv, counter, now,
                   created, prim, pc>>

(***************************************************************************)
(* MillisToTimeval, socket.cpp 532-538.  C++ division truncates toward     *)
(* zero and the remainder has the sign of the dividend.                    *)
(***************************************************************************)
TruncDiv(a, b) == IF a >= 0 THEN a \div b ELSE 0 - ((0 - a) \div b)
TruncRem(a, b) == a - (b * TruncDiv(a, b))

\* MillisToTimeval with the remainder left in milliseconds
MillisToTimevalUnscaled(nTimeout) ==
    [tv_sec |-> TruncDiv(nTimeout, 1000), tv_usec |-> TruncRem(nTimeout, 1000)]

MillisToTimeval(nTimeout) ==
    [tv_sec |-> TruncDiv(nTimeout, 1000), tv_usec |-> TruncRem(nTimeout, 1000) * 1000]

(***************************************************************************)
(* A caller of the socket primitives alone: ConnectSocketDirectly,         *)
(* CloseSocket and MillisToTimeval, each called on any input.              *)
(***************************************************************************)
\* the timeouts converted
MillisSet == {0, 1, 999, 1000, 1001, 1500, 5000, SOCKS5_RECV_TIMEOUT, 86399999,
              INT_MAX, 0 - 1, 0 - 1500}

NoPrim == [op |-> "none", h |-> INVALID_SOCKET, open |-> {}, again |-> FALSE, os |-> NoOs,
           ret |-> 0, result |-> FALSE, os_close |-> FALSE,
           addr |-> "none", manual |-> FALSE,
           r |-> CsdResult(FALSE, "none", FALSE, FALSE),
           twin |-> CsdResult(FALSE, "none", FALSE, FALSE),
           x |-> 0, tv |-> [tv_sec |-> 0, tv_usec |-> 0]]

\* CloseSocket(hSocket) on the handle the caller holds, valid or not
PrimClose ==
    /\ pc = "idle"
    /\ \E ret \in {0, SOCKET_ERROR} :
        LET c == CloseSocket(hSocket, Table(open, sockopt), ret)
        IN  /\ hSocket \notin open => ret = SOCKET_ERROR
            /\ hSocket' = c.hSocket
            /\ open' = c.t.open
            /\ sockopt' = c.t.sockopt
            /\ prim' = [NoPrim EXCEPT !.op = "close", !.h = hSocket, !.open = open,
                                      !.again = (prim.op = "close"),
                                      !.ret = ret, !.result = c.ret,
                                      !.os_close = c.os_close]
    /\ UNCHANGED <<cfgVars, thr, recvVars, proxyVars, interruptSocks5Recv, counter, now,
                   created, pc>>

\* ConnectSocketDirectly(addrConnect, hSocket, nTimeout, manual_connection);
\* twin is what the same call returns, on the same answers of the operating
\* system, with the other value of manual_connection (where the behaviour is
\* undefined the two calls need not agree)
PrimConnect ==
    /\ pc = "idle"
    /\ \E addrConnect \in {"IPv4", "Unroutable"}, manual_connection \in BOOLEAN :
       \E os \in OsConnectFor(hSocket), undef \in BOOLEAN :
            prim' = [NoPrim EXCEPT
                        !.op = "connect", !.h = hSocket, !.open = open,
                        !.addr = addrConnect, !.manual = manual_connection,
                        !.os = os,
                        !.r = ConnectSocketDirectly(addrConnect, hSocket,
                                                    manual_connection, os),
                        !.twin = ConnectSocketDirectly(addrConnect, hSocket,
                                                       ~manual_connection,
                                                       [os EXCEPT !.undef = undef])]
    /\ UNCHANGED <<cfgVars, thr, recvVars, proxyVars, interruptSocks5Recv, counter, now,
                   open, sockopt, created, hSocket, pc>>

\* MillisToTimeval(x)
PrimTimeval ==
    /\ pc = "idle"
    /\ \E x \in MillisSet :
        prim' = [NoPrim EXCEPT !.op = "timeval", !.x = x, !.tv = MillisToTimeval(x)]
    /\ UNCHANGED <<cfgVars, thr, recvVars, proxyVars, interruptSocks5Recv, counter, now,
                   open, sockopt, created, hSocket, pc>>

(***************************************************************************)
(* A caller of InterruptibleRecv alone: one call, from any state of the    *)
(* interrupt flag, its result read at "test_done".                         *)
(***************************************************************************)
TestRecv ==
    /\ pc = "idle"
    /\ \E len \in 0..MaxLen : \E timeout \in TimeoutSet :
        CallRecv(len, timeout, "test_done")
    /\ UNCHANGED <<cfgVars, thr, osVars, proxyVars, interruptSocks5Recv, counter, now,
                   hSocket>>

(***************************************************************************)
(* Threads that call ConnectThroughProxy at the same time, socket.cpp      *)
(* 503-525.  Each has its own socket and its own frame; what they share is *)
(* the static std::atomic_int counter of line 514.  counter++ at line 515  *)
(* is one atomic read-modify-write that yields the value before it.        *)
(***************************************************************************)
NThreads == 3
Threads == 1..NThreads
NoThread == [pc |-> "t_idle", randomize_credentials |-> FALSE, got |-> FALSE,
             value |-> 0, username |-> <<>>, password |-> <<>>, result |-> "none"]
NoThreads == [t \in Threads |-> NoThread]
\* what a thread leaves alone
mainVars == <<cfgVars, interruptSocks5Recv, now, osVars, hSocket, pc, recvVars, proxyVars>>

\* a thread calls ConnectThroughProxy
ThreadCall(t) ==
    /\ thr[t].pc = "t_idle"
    /\ \E randomize \in BOOLEAN :
        thr' = [thr EXCEPT ![t].pc = "t_connect", ![t].randomize_credentials = randomize]
    /\ UNCHANGED <<mainVars, counter>>

\* lines 506-510, on the socket of the thread
ThreadConnect(t) ==
    /\ thr[t].pc = "t_connect"
    /\ \E os \in OsConnect :
        LET r == ConnectSocketDirectly("IPv4", 3, TRUE, os)
        IN  thr' = IF ~r.ret
                   THEN [thr EXCEPT ![t].pc = "t_done", ![t].result = "false"]
                   ELSE [thr EXCEPT ![t].pc = IF thr[t].randomize_credentials
                                              THEN "t_counter" ELSE "t_socks"]
    /\ UNCHANGED <<mainVars, counter>>

\* ThreadCounter with counter++ done as a read and a later write
ThreadCounterTorn(t) ==
    /\ \/ /\ thr[t].pc = "t_counter"
          /\ thr' = [thr EXCEPT ![t].pc = "t_write", ![t].value = counter]
          /\ UNCHANGED counter
       \/ /\ thr[t].pc = "t_write"
          /\ thr' = [thr EXCEPT ![t].pc = "t_socks", ![t].got = TRUE,
                                ![t].username = Decimal(thr[t].value),
                                ![t].password = Decimal(thr[t].value)]
          /\ counter' = Increment(thr[t].value)
    /\ UNCHANGED mainVars

\* lines 513-515: the credentials made of counter++
ThreadCounter(t) ==
    /\ thr[t].pc = "t_counter"
    /\ thr' = [thr EXCEPT ![t].pc = "t_socks", ![t].got = TRUE, ![t].value = counter,
                          ![t].username = Decimal(counter),
                          ![t].password = Decimal(counter)]
    /\ counter' = Increment(counter)
    /\ UNCHANGED mainVars

\* lines 516-523: the negotiation on the socket of the thread, which reads
\* and writes nothing the threads share but the interrupt flag it reads
ThreadSocks(t) ==
    /\ thr[t].pc = "t_socks"
    /\ \E ok \in BOOLEAN :
        thr' = [thr EXCEPT ![t].pc = "t_done",
                           ![t].result = IF ok THEN "true" ELSE "false"]
    /\ UNCHANGED <<mainVars, counter>>

(***************************************************************************)
(* The specifications.                                                     *)
(***************************************************************************)
InitCommon ==
    /\ interruptSocks5Recv = FALSE
    /\ now = 0
    /\ hSocket \in HandleSet
    /\ open = {hSocket} \ {INVALID_SOCKET}
    /\ sockopt = [fd \in open |-> [nonblocking |-> TRUE, nodelay |-> TRUE]]
    /\ created = NoCreated
    /\ prim = NoPrim
    /\ pc = "idle"
    /\ ir = NoFrame
    /\ hist = NoHist
    /\ s5 = NoS5
    /\ ctp = NoCtp
    /\ wire = <<>>
    /\ calls = NoCalls
    /\ thr = NoThreads

\* InterruptibleRecv alone
InitRecv ==
    /\ build \in {"select", "poll"}
    /\ counter = 0
    /\ env = [peer |-> Peer({0}), ticks |-> {500}, history |-> TRUE]
    /\ InitCommon

NextRecv == TestRecv \/ InterruptibleRecv \/ Interrupter \/ Tick

SpecRecv == InitRecv /\ [][NextRecv]_vars

\* one call of ConnectThroughProxy
Init ==
    /\ build \in {"select"}
    /\ counter = 0
    /\ env = [peer |-> Peer(ByteSet), ticks |-> {SOCKS5_RECV_TIMEOUT}, history |-> FALSE,
              maxCalls |-> 1,
              proxies |-> {"IPv4"}, hosts |-> {Host(1)}, ports |-> {80},
              randomize |-> {TRUE}, outs |-> {"null"}]
    /\ InitCommon

Next ==
    \/ Call \/ ConnectThroughProxy \/ Socks5 \/ InterruptibleRecv
    \/ InterrupterAtSample \/ Tick \/ Done \/ CallerClose

Spec == Init /\ [][Next]_vars

\* one call of ConnectThroughProxy, the other thread writing the interrupt
\* flag at any moment
InitIntr ==
    /\ build \in {"poll"}
    /\ counter = 0
    /\ env = [peer |-> [Peer({0}) EXCEPT !["s5_greet"] = {2, 5},
                                        !["s5_auth"] = {0, 1},
                                        !["s5_reply"] = {0, 3, 5},
                                        !["s5_dlen"] = {0, 1}],
              ticks |-> {SOCKS5_RECV_TIMEOUT}, history |-> TRUE,
              maxCalls |-> 1,
              proxies |-> {"IPv4"}, hosts |-> {Host(1)}, ports |-> {80},
              randomize |-> {TRUE}, outs |-> {"null"}]
    /\ InitCommon

NextIntr ==
    \/ Call \/ ConnectThroughProxy \/ Socks5 \/ InterruptibleRecv
    \/ Interrupter \/ Tick

SpecIntr == InitIntr /\ [][NextIntr]_vars

\* successive calls of ConnectThroughProxy in one process, early in its life
\* and after INT_MAX randomized calls
InitIso ==
    /\ build \in {"poll"}
    /\ counter \in {0, INT_MAX}
    /\ env = [peer |-> [Peer({0}) EXCEPT !["s5_greet"] = {0, 2, 5},
                                        !["s5_auth"] = {0, 1},
                                        !["s5_reply"] = {0, 3, 5},
                                        !["s5_dlen"] = {1}],
              ticks |-> {0}, history |-> FALSE,
              maxCalls |-> MaxCalls,
              proxies |-> {"IPv4"}, hosts |-> {Host(1)}, ports |-> {80},
              randomize |-> {TRUE, FALSE}, outs |-> {"null"}]
    /\ InitCommon

NextIso == Call \/ ConnectThroughProxy \/ Socks5 \/ InterruptibleRecv \/ Done

SpecIso == InitIso /\ [][NextIso]_vars

\* one call of ConnectThroughProxy on every kind of input: hostnames at the
\* length limit, ports at and beyond the 16-bit range, with and without the
\* output argument
InitProto ==
    /\ build \in {"poll"}
    /\ counter = 0
    /\ env = [peer |-> [Peer({0}) EXCEPT !["s5_greet"] = {0, 2, 5},
                                        !["s5_auth"] = {0, 1},
                                        !["s5_reply"] = {0, 3, 5},
                                        !["s5_dlen"] = {1}],
              ticks |-> {0}, history |-> FALSE,
              maxCalls |-> 1,
              proxies |-> {"IPv4", "Unroutable"},
              hosts |-> {Host(1), Host(HostLimit), Host(HostLimit + 1)},
              ports |-> {0, 65535, 65536 + 80, 0 - 1},
              randomize |-> {TRUE, FALSE}, outs |-> {"null", "false"}]
    /\ InitCommon
    /\ hSocket \in {INVALID_SOCKET, 3}

NextProto == Call \/ ConnectThroughProxy \/ Socks5 \/ InterruptibleRecv \/ Done

SpecProto == InitProto /\ [][NextProto]_vars

\* one call of Socks5 with credentials of every kind, a hostname within or
\* beyond the limit, and a proxy that sends any reply, is late, or closes
InitAuth ==
    /\ build \in {"poll"}
    /\ counter = 0
    /\ env = [peer |-> [Peer({0}) EXCEPT !["s5_greet"] = {0, 2, 5},
                                        !["s5_auth"] = {0, 1},
                                        !["s5_reply"] = {0, 1, 3, 4, 5},
                                        !["s5_dlen"] = {0, 1, ByteMax}],
              ticks |-> {SOCKS5_RECV_TIMEOUT}, history |-> FALSE,
              maxCalls |-> 1,
              proxies |-> {"IPv4"}, hosts |-> {Host(1), Host(HostLimit + 1)},
              ports |-> {80},
              randomize |-> {FALSE}, outs |-> {"null"}]
    /\ InitCommon
    /\ hSocket \in {INVALID_SOCKET, 3}

NextAuth == CallSocks5 \/ Socks5 \/ InterruptibleRecv \/ Tick \/ Done

SpecAuth == InitAuth /\ [][NextAuth]_vars

\* a caller of the socket primitives
InitPrim ==
    /\ build \in Builds
    /\ counter = 0
    /\ env = [peer |-> Peer({0}), ticks |-> {0}, history |-> FALSE]
    /\ InitCommon

NextPrim == PrimClose \/ PrimConnect \/ PrimTimeval

SpecPrim == InitPrim /\ [][NextPrim]_vars

\* one call of ConnectThroughProxy with every value of the output argument:
\* none, a bool that is false, a bool that is true
InitOut ==
    /\ build \in {"poll"}
    /\ counter = 0
    /\ env = [peer |-> [Peer({0}) EXCEPT !["s5_greet"] = {0, 2, 5},
                                        !["s5_auth"] = {0, 1},
                                        !["s5_reply"] = {0, 3, 5},
                                        !["s5_dlen"] = {1}],
              ticks |-> {0}, history |-> FALSE,
              maxCalls |-> 1,
              proxies |-> {"IPv4", "Unroutable"}, hosts |-> {Host(1)}, ports |-> {80},
              randomize |-> {TRUE, FALSE}, outs |-> {"null", "false", "true"}]
    /\ InitCommon

NextOut == Call \/ ConnectThroughProxy \/ Socks5 \/ InterruptibleRecv \/ Done

SpecOut == InitOut /\ [][NextOut]_vars

\* calls of ConnectThroughProxy before and after an InterruptSocks5(true)
\* that is not taken back
InitHeld ==
    /\ build \in {"select"}
    /\ counter = 0
    /\ env = [peer |-> [Peer({0}) EXCEPT !["s5_greet"] = {0, 2, 5},
                                        !["s5_auth"] = {0, 1},
                                        !["s5_reply"] = {0, 3, 5},
                                        !["s5_dlen"] = {1}],
              ticks |-> {SOCKS5_RECV_TIMEOUT}, history |-> FALSE,
              maxCalls |-> MaxCalls,
              proxies |-> {"IPv4"}, hosts |-> {Host(1)}, ports |-> {80},
              randomize |-> {TRUE, FALSE}, outs |-> {"null"}]
    /\ InitCommon

NextHeld ==
    \/ Call \/ ConnectThroughProxy \/ Socks5 \/ InterruptibleRecv
    \/ InterrupterHolding \/ Tick \/ Done

SpecHeld == InitHeld /\ [][NextHeld]_vars

\* threads that call ConnectThroughProxy concurrently, early in the life of
\* the process and after INT_MAX randomized calls
InitThreads ==
    /\ build \in {"poll"}
    /\ counter \in {0, INT_MAX}
    /\ env = [peer |-> Peer({0}), ticks |-> {0}, history |-> FALSE, start |-> counter]
    /\ InitCommon

NextThreads ==
    \E t \in Threads :
        ThreadCall(t) \/ ThreadConnect(t) \/ ThreadCounter(t) \/ ThreadSocks(t)

SpecThreads == InitThreads /\ [][NextThreads]_vars

\* a caller that creates and closes sockets
InitCreate ==
    /\ build \in Builds
    /\ counter = 0
    /\ env = [peer |-> Peer({0}), ticks |-> {0}, history |-> FALSE]
    /\ InitCommon

NextCreate == Create \/ Created \/ CallerClose

SpecCreate == InitCreate /\ [][NextCreate]_vars

(***************************************************************************)
(* Properties of InterruptibleRecv, checked under SpecRecv.                *)
(***************************************************************************)
Returned == pc = "test_done"

\* C1: InterruptibleRecv returns OK only if the byte counts its recv calls
\* returned sum to exactly the requested len; every recv asks for at most the
\* bytes still missing, so on any return the call has consumed at most len
\* bytes.
C1_RecvExact ==
    /\ [](ir.result = "OK" => hist.consumed = hist.len)
    /\ [](hist.consumed <= hist.len)
    /\ [][pc = "ir_recv" => ir'.ask <= hist.len - hist.consumed]_vars

\* a read of several bytes that took more than one recv and returned OK
C1_Witness ==
    /\ Returned /\ ir.result = "OK" /\ ~hist.written
    /\ hist.len >= 2 /\ hist.recvs >= 2 /\ hist.consumed = hist.len

\* C2 as stated: with the flag true at entry (len > 0, timeout > 0) the call
\* returns Interrupted and performs no recv.
C2_Original ==
    (Returned /\ hist.entryFlag /\ ~hist.written /\ hist.len > 0 /\ ir.timeout > 0)
        => (ir.result = "Interrupted" /\ hist.recvs = 0)

\* C2 amended: with the flag true at entry (len > 0, timeout > 0) the call
\* performs a recv first; if the flag stays true until the return that recv
\* is the only one, there is at most one wait, and the result is Interrupted,
\* or Disconnected / NetworkError when the recv or the wait reported it:
\* never OK or Timeout.
C2_InterruptedAfterOneRecv ==
    (Returned /\ hist.entryFlag /\ hist.len > 0 /\ ir.timeout > 0)
        => /\ hist.written \/ hist.recvs >= 1
           /\ ~hist.written =>
                /\ hist.recvs = 1 /\ hist.waits <= 1
                /\ ir.result \in {"Interrupted", "Disconnected", "NetworkError"}
                /\ hist.consumed > 0 => ir.result = "Interrupted"

\* the flag was true throughout, bytes arrived, and the call was interrupted
C2_Witness ==
    /\ Returned /\ hist.entryFlag /\ ~hist.written /\ hist.len > 0
    /\ ir.timeout > 0 /\ hist.consumed > 0 /\ ir.result = "Interrupted"

\* C4: InterruptibleRecv called with len = 0 returns OK without any recv or
\* readiness wait, for every timeout and every state of the interrupt flag.
C4_ZeroLen ==
    hist.len = 0 =>
        /\ pc \notin {"ir_recv", "ir_wait", "ir_intr"}
        /\ hist.recvs = 0 /\ hist.waits = 0 /\ hist.consumed = 0
        /\ Returned => ir.result = "OK"

\* a zero-length call with the flag set and a negative timeout has returned
C4_Witness ==
    /\ Returned /\ hist.len = 0 /\ hist.entryFlag /\ ir.timeout < 0
    /\ ir.result = "OK"

(***************************************************************************)
(* Properties of the interrupt, checked under SpecIntr.                    *)
(***************************************************************************)
\* InterruptibleRecv has returned and its caller has not yet taken the result
RecvReturned == ir.result # "none"
\* InterruptSocks5(true) was called during the running or just returned
\* InterruptibleRecv, and the flag was not written since
SetDuringRecv == hist.written /\ hist.intr

\* C3 as stated: after InterruptSocks5(true), with the flag left true, every
\* InterruptibleRecv in progress returns Interrupted after at most one further
\* readiness wait, and the enclosing ConnectThroughProxy then returns false.
C3_Original ==
    /\ (RecvReturned /\ SetDuringRecv) =>
            (ir.result = "Interrupted" /\ hist.waits <= 1)
    /\ (pc = "done" /\ hist.intr /\ interruptSocks5Recv) => ctp.result = "false"

\* C3: after InterruptSocks5(true), with the flag left true, an
\* InterruptibleRecv in progress makes at most one further recv and at most
\* one further readiness wait, each wait lasting at most maxWait; if it made
\* either, it returns Interrupted, or Disconnected or NetworkError when that
\* recv or wait reported so, and otherwise it may also return OK or Timeout;
\* and ConnectThroughProxy returns false if any recv or wait ran after the
\* flag was set.
C3_InterruptWithinOneWait ==
    /\ SetDuringRecv => (hist.recvs <= 1 /\ hist.waits <= 1)
    /\ pc = "ir_wait" => (ir.timeout_ms >= 1 /\ ir.timeout_ms <= maxWait)
    /\ (RecvReturned /\ SetDuringRecv /\ hist.recvs + hist.waits > 0) =>
            ir.result \in {"Interrupted", "Disconnected", "NetworkError"}
    /\ (pc = "done" /\ hist.seen) =>
            (interruptSocks5Recv /\ ctp.result = "false")

\* the flag was set while the read of the CONNECT reply waited for the proxy;
\* the wait ended and the read returned Interrupted
C3_Witness ==
    /\ pc = "s5_reply" /\ RecvReturned /\ SetDuringRecv /\ ~hist.entryFlag
    /\ hist.recvs = 0 /\ hist.waits = 1 /\ hist.seen
    /\ ir.result = "Interrupted"

(***************************************************************************)
(* Properties of ConnectThroughProxy, checked under Spec.                  *)
(***************************************************************************)
ProxyReturned == pc = "done"
ProxyFailed == ProxyReturned /\ ctp.result = "false"

\* C6: ConnectThroughProxy, Socks5, ConnectSocketDirectly and
\* InterruptibleRecv never close or invalidate the caller's handle: at every
\* point of a call, and when it returns on any path, the handle and the open
\* descriptors are what they were when ConnectThroughProxy was entered.
C6_HandleUntouched ==
    pc # "idle" => (hSocket = ctp.hSocket /\ open = ctp.open)

\* the proxy refused the credentials and the call returned false with the
\* socket open
C6_Witness ==
    /\ ProxyFailed /\ s5.log = "Proxy authentication unsuccessful"
    /\ hSocket # INVALID_SOCKET /\ hSocket \in open

\* C7 as stated: when ConnectThroughProxy fails, the socket has been closed by
\* the time the call returns.
C7_Original == ProxyFailed => hSocket \notin open

\* C7: when ConnectThroughProxy fails on a socket that was open, the socket is
\* still open at the return and the caller's handle still names it; closing
\* is left to the caller.
C7_OpenAfterFailure ==
    (ProxyFailed /\ ctp.hSocket \in ctp.open) =>
        (hSocket \in open /\ hSocket = ctp.hSocket)

\* the connect to the proxy failed and the socket is open at the return
C7_Witness ==
    /\ ProxyFailed /\ ~ctp.csd.ret /\ ctp.csd.connect
    /\ ctp.hSocket \in ctp.open /\ hSocket \in open

(***************************************************************************)
(* Properties of successive calls, checked under SpecIso.                  *)
(***************************************************************************)
\* C5: for any two successive ConnectThroughProxy calls with
\* randomize_credentials = true, the (username, password) pairs presented to
\* the proxy are distinct, and the counter value the later call used is
\* strictly greater than the one the earlier call used.
C5_DistinctAndIncreasing ==
    /\ \A i, j \in 1..Len(calls.presented) :
            i < j => calls.presented[i] # calls.presented[j]
    /\ \A i, j \in 1..Len(calls.used) : i < j => calls.used[i] < calls.used[j]

\* two randomized calls, the earlier one using INT_MAX, presented their
\* credentials
C5_Witness ==
    /\ Len(calls.used) = 2 /\ Len(calls.presented) = 2
    /\ calls.used[1] = INT_MAX /\ calls.used[2] < 0
    /\ calls.presented[1] # calls.presented[2]

(***************************************************************************)
(* Properties of CreateSocket, checked under SpecCreate.                   *)
(***************************************************************************)
CreateReturned == pc = "created"
\* socket() gave CreateSocket a descriptor
SocketOpened == GetSockAddr(created.addr) /\ created.os.fd # INVALID_SOCKET

\* C8: whenever CreateSocket returns INVALID_SOCKET, no descriptor it opened
\* remains open: the open descriptors are those that were open before the call.
C8_NoLeak ==
    (CreateReturned /\ created.ret = INVALID_SOCKET) => open = created.open

\* socket() succeeded, setting non-blocking failed, the call returned
\* INVALID_SOCKET
C8_Witness ==
    /\ CreateReturned /\ SocketOpened /\ created.ret = INVALID_SOCKET
    /\ created.os.fcntl = SOCKET_ERROR
    /\ created.log = "Setting socket to non-blocking failed"

\* C9: CreateSocket never returns a valid handle for which IsSelectableSocket
\* is false; in a build that waits with select, every returned descriptor is
\* below FD_SETSIZE.
C9_Selectable ==
    (CreateReturned /\ created.ret # INVALID_SOCKET) =>
        /\ IsSelectableSocket(created.ret)
        /\ build = "select" => created.ret < FD_SETSIZE

\* under select, CreateSocket returned the largest descriptor select can take
C9_Witness ==
    /\ CreateReturned /\ build = "select" /\ SocketOpened
    /\ created.ret = FD_SETSIZE - 1 /\ created.ret \in open

\* C10 as stated: every valid handle CreateSocket returns is non-blocking and
\* has TCP_NODELAY set.
C10_Original ==
    (CreateReturned /\ created.ret # INVALID_SOCKET) =>
        /\ sockopt[created.ret].nonblocking
        /\ sockopt[created.ret].nodelay

\* C10: every valid handle CreateSocket returns is open and non-blocking, and
\* has TCP_NODELAY set exactly when setsockopt accepted it; if non-blocking
\* mode cannot be set, CreateSocket returns INVALID_SOCKET.
C10_NonBlockingNoDelayTried ==
    CreateReturned =>
        /\ created.ret # INVALID_SOCKET =>
            /\ created.ret \in open
            /\ sockopt[created.ret].nonblocking
            /\ sockopt[created.ret].nodelay <=> created.os.nodelay = 0
        /\ (SocketOpened /\ created.os.fcntl = SOCKET_ERROR) =>
                created.ret = INVALID_SOCKET

\* a valid, non-blocking handle was returned without TCP_NODELAY
C10_Witness ==
    /\ CreateReturned /\ created.ret # INVALID_SOCKET
    /\ created.os.nodelay = SOCKET_ERROR
    /\ sockopt[created.ret].nonblocking /\ ~sockopt[created.ret].nodelay

(***************************************************************************)
(* Claims about the socket primitives, checked under SpecPrim.             *)
(***************************************************************************)
ConnectReturned == prim.op = "connect"
CloseReturned == prim.op = "close"
TimevalReturned == prim.op = "timeval"

\* C17: wherever its behaviour is defined, ConnectSocketDirectly returns the
\* same boolean, and makes the same connect and wait calls, with
\* manual_connection true as with manual_connection false; the flag changes
\* only the sink of the connect-failure message (always with the flag, the net
\* category without it).
C17_ManualOnlyLogs ==
    (ConnectReturned /\ prim.r.log # "undefined") =>
        /\ prim.twin.ret = prim.r.ret
        /\ prim.twin.connect = prim.r.connect
        /\ prim.twin.wait = prim.r.wait
        /\ prim.twin.log # prim.r.log =>
            /\ prim.r.log = LogConnectFailure(prim.manual)
            /\ prim.twin.log = LogConnectFailure(~prim.manual)
            /\ ~prim.r.ret

\* a refused connection: false in both calls, logged under net without the
\* flag and unconditionally with it
C17_Witness ==
    /\ ConnectReturned /\ ~prim.manual
    /\ prim.r.connect /\ ~prim.r.ret /\ ~prim.twin.ret
    /\ prim.r.log = "net" /\ prim.twin.log = "always"

\* C18: CloseSocket on a valid handle leaves the handle INVALID_SOCKET whether
\* or not the close of the operating system succeeds; it returns false exactly
\* when the handle was already invalid or the close failed; a second
\* CloseSocket on the same handle returns false and makes no close call.
C18_CloseInvalidates ==
    CloseReturned =>
        /\ hSocket = INVALID_SOCKET
        /\ prim.os_close <=> prim.h # INVALID_SOCKET
        /\ ~prim.result <=> (prim.h = INVALID_SOCKET \/ prim.ret = SOCKET_ERROR)
        /\ ~prim.os_close => open = prim.open
        /\ prim.again => (prim.h = INVALID_SOCKET /\ ~prim.result /\ ~prim.os_close)

\* a failed close of an open descriptor invalidated the handle
C18_Witness ==
    /\ CloseReturned /\ prim.h \in prim.open
    /\ prim.ret = SOCKET_ERROR /\ ~prim.result
    /\ hSocket = INVALID_SOCKET

\* C19: for x >= 0, MillisToTimeval(x) has tv_sec = x div 1000 and
\* tv_usec = (x mod 1000) * 1000, so that tv_sec * 1000 + tv_usec div 1000 = x
\* and 0 <= tv_usec < 1000000.
C19_Timeval ==
    (TimevalReturned /\ prim.x >= 0) =>
        /\ prim.tv.tv_sec = prim.x \div 1000
        /\ prim.tv.tv_usec = (prim.x % 1000) * 1000
        /\ (prim.tv.tv_sec * 1000) + (prim.tv.tv_usec \div 1000) = prim.x
        /\ 0 <= prim.tv.tv_usec /\ prim.tv.tv_usec < 1000000

\* a timeout with whole seconds and a remainder was converted
C19_Witness ==
    /\ TimevalReturned /\ prim.x = 1500
    /\ prim.tv = [tv_sec |-> 1, tv_usec |-> 500000]

(***************************************************************************)
(* Claims about the log of Socks5, checked under Spec.                     *)
(***************************************************************************)
\* Socks5 returned because an InterruptibleRecv did not return OK
RecvFailed == pc = "done" /\ s5.recvr \notin {"OK", "none"}
\* the reads of the CONNECT reply: its first 4 bytes, the address, the port
ReplySteps == {"s5_reply", "s5_dlen", "s5_addr", "s5_port"}

ConnectFailed == pc = "done" /\ ~ctp.csd.ret
\* the proxy was reached and the negotiation failed
NegotiationFailed == pc = "done" /\ ctp.csd.ret /\ ctp.result = "false"

\* C11: ConnectThroughProxy sets the output proxy_connection_failed (when the
\* caller passed one) to true if and only if the connect to the proxy fails,
\* and then nothing of SOCKS5 is sent or read; when the proxy is reached and
\* the negotiation fails the call returns false and the output is as it was.
C11_ProxyConnectionFailed ==
    /\ pc \in {"ctp_socks", "s5_enter", "s5_greet", "s5_auth", "s5_reply", "s5_dlen",
               "s5_addr", "s5_port"} \/ InRecv =>
            ctp.csd.ret /\ ctp.outProxyConnectionFailed = ctp.outBefore
    /\ pc = "done" =>
        /\ ctp.outBefore = "null" => ctp.outProxyConnectionFailed = "null"
        /\ ~ctp.csd.ret =>
            /\ ctp.result = "false"
            /\ ctp.outBefore # "null" => ctp.outProxyConnectionFailed = "true"
            /\ wire = <<>> /\ s5 = NoS5 /\ calls.presented = <<>>
        /\ ctp.csd.ret =>
            /\ ctp.outProxyConnectionFailed = ctp.outBefore
            /\ s5.result = ctp.result /\ ctp.result \in {"true", "false"}

\* the connect failed and the output, false before, is true
C11_Witness ==
    /\ ConnectFailed /\ ctp.csd.connect
    /\ ctp.outBefore = "false" /\ ctp.outProxyConnectionFailed = "true"
    /\ wire = <<>>

\* Socks5 was entered and has returned
Socks5Returned == pc = "done" /\ s5.result # "none"
\* the CONNECT requests handed to send(): the messages of more than 4 bytes
\* that start with the SOCKS version
ConnectRequests == {wire[i].msg : i \in {j \in DOMAIN wire :
                                            Len(wire[j].msg) > 4 /\ wire[j].msg[1] = 5}}

\* C12: Socks5 rejects a hostname longer than 255 bytes before anything is
\* sent, rejects no hostname of 255 bytes or fewer for its length, and the
\* hlen byte of every CONNECT request sent is the length of the hostname.
C12_HostnameLength ==
    /\ Socks5Returned =>
        /\ Len(s5.strDest) > HostLimit =>
            /\ s5.result = "false" /\ s5.log = "Hostname too long"
            /\ wire = <<>> /\ s5.recvr = "none"
        /\ Len(s5.strDest) <= HostLimit => s5.log # "Hostname too long"
    /\ \A m \in ConnectRequests :
        /\ m[5] = Len(ctp.strDest)
        /\ SubSeq(m, 6, 5 + m[5]) = ctp.strDest
        /\ Len(m) = 7 + Len(ctp.strDest)

\* a hostname of 255 bytes was accepted and sent with hlen 255
C12_Witness ==
    /\ Socks5Returned /\ s5.result = "true" /\ Len(ctp.strDest) = HostLimit
    /\ \E m \in ConnectRequests : m[5] = HostLimit

\* the last two bytes of message m
PortBytes(m) == SubSeq(m, Len(m) - 1, Len(m))

\* C14: the last two bytes of every CONNECT request are the port passed to
\* ConnectThroughProxy, truncated to 16 bits, high byte first; port 0 is sent
\* as 00 00 and port 65535 as FF FF.
C14_PortBigEndian ==
    \A m \in ConnectRequests :
        /\ PortBytes(m) = <<(ctp.port % 65536) \div 256, ctp.port % 256>>
        /\ ctp.port = 0 => PortBytes(m) = <<0, 0>>
        /\ ctp.port = 65535 => PortBytes(m) = <<255, 255>>
        /\ (PortBytes(m)[1] * 256) + PortBytes(m)[2] = ctp.port % 65536

\* a port beyond 16 bits was sent truncated, high byte first
C14_Witness ==
    /\ ctp.port = 65536 + 80
    /\ \E m \in ConnectRequests : PortBytes(m) = <<0, 80>>

\* what a message handed to send() is
Kind(m) == IF m[1] = 1 THEN "auth" ELSE IF Len(m) > 4 THEN "connect" ELSE "greeting"
\* the messages handed to send() so far in this call, in order
Sent == [i \in DOMAIN wire |-> Kind(wire[i].msg)]
\* message i was sent whole
Whole(i) == wire[i].ret = Len(wire[i].msg)
\* the step the call is at: ConnectThroughProxy (1, 2), Socks5 at its entry
\* (3), then for each read of Socks5 the InterruptibleRecv and the line that
\* takes its result, and the return (16)
ReadRank(site) ==
    CASE site = "s5_greet" -> 4 [] site = "s5_auth" -> 6 [] site = "s5_reply" -> 8
      [] site = "s5_dlen" -> 10 [] site = "s5_addr" -> 12 [] site = "s5_port" -> 14
      [] OTHER -> 0
Phase ==
    CASE pc = "idle" -> 0 [] pc = "ctp_connect" -> 1 [] pc = "ctp_socks" -> 2
      [] pc = "s5_enter" -> 3 [] pc = "done" -> 16
      [] InRecv -> ReadRank(ir.ret_to)
      [] OTHER -> ReadRank(pc) + 1

\* the order of what was sent, and what was read before each message
DialogOrder ==
    /\ Sent \in {<<>>, <<"greeting">>, <<"greeting", "auth">>, <<"greeting", "connect">>,
                 <<"greeting", "auth", "connect">>}
    /\ \A i \in DOMAIN wire : i < Len(wire) => Whole(i)
    /\ Len(Sent) >= 2 => s5.pchRet1[1] = 5
    /\ (Len(Sent) >= 2 /\ Sent[2] = "auth") =>
            s5.auth.present /\ s5.pchRet1 = <<5, 2>>
    /\ Sent = <<"greeting", "connect">> => s5.pchRet1 = <<5, 0>>
    /\ Len(Sent) = 3 => s5.pchRetA = <<1, 0>>
    /\ Phase \in 4..5 => (Sent = <<"greeting">> /\ Whole(1))
    /\ Phase \in 6..7 => (Sent = <<"greeting", "auth">> /\ Whole(2))
    /\ Phase \in 8..15 => (Sent[Len(Sent)] = "connect" /\ Whole(Len(Sent)))
    /\ s5.result = "true" => Sent[Len(Sent)] = "connect"

\* no step is taken twice and none is taken out of order: a step moves the call
\* forward, but for the loop of InterruptibleRecv, which stays in its read
DialogForward ==
    \/ Phase' > Phase
    \/ InRecv /\ InRecv' /\ Phase' = Phase /\ wire' = wire /\ s5' = s5
    \/ pc = "done" /\ pc' = "idle"

\* C15: Socks5 sends the greeting, reads its reply, sends the credentials and
\* reads their reply when the proxy selected authentication, sends the CONNECT
\* request and reads its reply, in this order and each at most once; the
\* CONNECT request is sent only after an acceptable greeting reply and, with
\* authentication, a successful authentication reply; a call of
\* ConnectThroughProxy makes one connect and runs at most one Socks5 dialog.
C15_DialogOrder == [](DialogOrder) /\ [][DialogForward]_vars

\* a whole dialog with authentication succeeded
C15_Witness ==
    /\ pc = "done" /\ ctp.result = "true"
    /\ Sent = <<"greeting", "auth", "connect">>

(***************************************************************************)
(* Claims about the credentials of Socks5, checked under SpecAuth.         *)
(***************************************************************************)
\* the username/password messages handed to send()
AuthMessages == {wire[i].msg : i \in {j \in DOMAIN wire : Kind(wire[j].msg) = "auth"}}
\* the ulen and plen bytes of a username/password message
Ulen(m) == m[2]
Plen(m) == m[3 + Ulen(m)]
\* the proxy selected username/password authentication for credentials that
\* are both empty
EmptyCredentialsSelected ==
    /\ s5.auth.present /\ s5.auth.username = <<>> /\ s5.auth.password = <<>>
    /\ s5.pchRet1 = <<5, 2>>

CallAfterReset == hist.reset = "call"
\* ... and the InterruptibleRecv that runs or has just returned started after it
RecvAfterReset == hist.reset \in {"call", "recv"}
\* the proxy was reached, took every message whole and answered every step
\* correctly and in time
ProxyAnsweredWell ==
    /\ ctp.csd.ret
    /\ \A i \in DOMAIN wire : Whole(i)
    /\ s5.recvr \notin {"Timeout", "Disconnected", "NetworkError"}
    /\ s5.pchRet1 \in {<<5, 0>>, <<5, 2>>}
    /\ s5.pchRet1 = <<5, 2>> => s5.pchRetA = <<1, 0>>
    /\ Len(s5.pchRet2) = 4 /\ SubSeq(s5.pchRet2, 1, 3) = <<5, 0, 0>>
    /\ s5.pchRet2[4] \in {1, 3, 4}

\* C16: after InterruptSocks5(true) and then InterruptSocks5(false), as long
\* as the flag is not set again, no InterruptibleRecv started after the reset
\* returns Interrupted, and a ConnectThroughProxy started after it is not
\* aborted: with a proxy that answers every step correctly and in time it
\* returns true.
C16_ResetRearms ==
    /\ RecvAfterReset => ~interruptSocks5Recv
    /\ (RecvReturned /\ RecvAfterReset) => ir.result # "Interrupted"
    /\ (pc = "done" /\ CallAfterReset) => s5.recvr # "Interrupted"
    /\ (pc = "done" /\ CallAfterReset /\ ProxyAnsweredWell) => ctp.result = "true"

\* a call started after the reset went through the whole negotiation
C16_Witness ==
    /\ pc = "done" /\ CallAfterReset /\ ProxyAnsweredWell
    /\ ctp.result = "true" /\ s5.recvr = "OK"

(***************************************************************************)
(* Claims about the negotiation of Socks5, checked under Spec.             *)
(***************************************************************************)
\* C21: when a recv returns 0 while InterruptibleRecv still expects bytes, the
\* call returns Disconnected, at once; a proxy that closes after the greeting
\* makes the 2-byte read of the greeting reply return Disconnected and Socks5
\* return false.
C21_Disconnected ==
    /\ ir.ret = 0 => (RecvReturned /\ ir.result = "Disconnected" /\ ir.len > 0)
    /\ (RecvReturned /\ ir.result = "Disconnected") => ir.ret = 0
    /\ (pc = "done" /\ s5.recvr = "Disconnected") =>
            (s5.result = "false" /\ ctp.result = "false")
    /\ (pc = "done" /\ s5.recvr = "Disconnected" /\ s5.at = "s5_greet") =>
            (Len(wire) = 1 /\ wire[1].msg = GreetingMsg(s5.auth)
                /\ s5.log = "InterruptibleRecv() timeout or other failure")

\* the proxy closed after the greeting: the read of its reply returned
\* Disconnected and Socks5 returned false
C21_Witness ==
    /\ pc = "done" /\ s5.at = "s5_greet" /\ s5.recvr = "Disconnected"
    /\ s5.pchRet1 = <<>> /\ s5.result = "false"
    /\ Len(wire) = 1

(***************************************************************************)
(* Claims about Socks5 called with any credentials, checked under SpecAuth.*)
(***************************************************************************)
\* every message handed to send() was taken whole
AllSentWhole == \A i \in DOMAIN wire : Whole(i)
\* the greeting reply selects a method Socks5 can go on with, and the
\* sub-negotiation, if any, succeeded
MethodAccepted ==
    \/ s5.pchRet1 = <<5, 0>>
    \/ s5.pchRet1 = <<5, 2>> /\ s5.auth.present /\ s5.pchRetA = <<1, 0>>
\* the first 4 bytes of the CONNECT reply report success
ReplyAccepted ==
    /\ Len(s5.pchRet2) = 4
    /\ s5.pchRet2[1] = 5 /\ s5.pchRet2[2] = 0 /\ s5.pchRet2[3] = 0
    /\ s5.pchRet2[4] \in {1, 3, 4}

\* C22: Socks5 returns true if and only if the hostname has at most 255
\* bytes, every send took its whole message, every InterruptibleRecv returned
\* OK, the greeting reply is 05 00, or 05 02 with credentials supplied and the
\* authentication reply 01 00, and the CONNECT reply has VER 05, REP 00,
\* RSV 00 and ATYP 01, 03 or 04.
C22_TrueIff ==
    Socks5Returned =>
        /\ s5.result \in {"true", "false"}
        /\ s5.result = "true" <=>
            /\ Len(s5.strDest) <= HostLimit
            /\ wire # <<>> /\ AllSentWhole
            /\ s5.recvr = "OK"
            /\ MethodAccepted
            /\ ReplyAccepted

\* the exchange without credentials and with an IPv4 bound address succeeded
C22_Witness ==
    /\ Socks5Returned /\ s5.result = "true" /\ ~s5.auth.present
    /\ s5.pchRet1 = <<5, 0>> /\ s5.pchRet2 = <<5, 0, 0, 1>>
    /\ Len(s5.pchRet3) = 4

\* the methods a greeting offers: the bytes after VER and NMETHODS
Methods(m) == {m[i] : i \in 3..Len(m)}

\* C23: the greeting Socks5 sends is 05 01 00 when no credentials are supplied
\* and 05 02 00 02 when credentials are supplied; method 02 is never offered
\* without credentials.
C23_Greeting ==
    /\ wire # <<>> =>
        /\ Kind(wire[1].msg) = "greeting"
        /\ ~s5.auth.present => wire[1].msg = <<5, 1, 0>>
        /\ s5.auth.present => wire[1].msg = <<5, 2, 0, 2>>
    /\ \A i \in DOMAIN wire :
        Kind(wire[i].msg) = "greeting" =>
            /\ i = 1
            /\ wire[i].msg[2] = Cardinality(Methods(wire[i].msg))
            /\ 2 \in Methods(wire[i].msg) => s5.auth.present

\* a greeting without credentials went out whole, offering method 00 alone
C23_Witness ==
    /\ wire # <<>> /\ ~s5.auth.present
    /\ wire[1] = [msg |-> <<5, 1, 0>>, ret |-> 3]

\* Socks5 has read a whole greeting reply with VER = 05
GreetingReplyRead == Len(s5.pchRet1) = 2 /\ s5.pchRet1[1] = 5
METHOD == s5.pchRet1[2]

\* C24: after a greeting reply with VER = 05, METHOD 00 skips authentication,
\* also when credentials were offered; METHOD 02 runs the username/password
\* sub-negotiation only when credentials are present; any other METHOD, and
\* METHOD 02 without credentials, makes Socks5 fail with neither an
\* authentication message nor a CONNECT request sent.
C24_MethodSelection ==
    GreetingReplyRead =>
        /\ METHOD = 0 => (Len(Sent) = 2 /\ Sent[2] = "connect")
        /\ (METHOD = 2 /\ s5.auth.present) =>
            \/ Len(Sent) >= 2 /\ Sent[2] = "auth"
            \/ /\ Len(s5.auth.username) > CredLimit \/ Len(s5.auth.password) > CredLimit
               /\ Sent = <<"greeting">> /\ Socks5Returned /\ s5.result = "false"
        /\ (Len(Sent) >= 2 /\ Sent[2] = "auth") => (METHOD = 2 /\ s5.auth.present)
        /\ (METHOD \notin {0, 2} \/ (METHOD = 2 /\ ~s5.auth.present)) =>
            /\ Sent = <<"greeting">>
            /\ Socks5Returned /\ s5.result = "false"
            /\ s5.log = "Proxy requested wrong authentication method"

\* the proxy selected username/password where none was offered: Socks5 failed
\* after the greeting alone
C24_Witness ==
    /\ GreetingReplyRead /\ METHOD = 2 /\ ~s5.auth.present
    /\ Socks5Returned /\ s5.result = "false" /\ Sent = <<"greeting">>

\* Socks5 has read a whole reply to its username/password message
AuthReplyRead == Len(s5.pchRetA) = 2
\* a CONNECT request was handed to send()
ConnectSent == \E i \in DOMAIN wire : Sent[i] = "connect"

\* C25: the username/password message sent is 01, ulen, username, plen,
\* password, with ulen and plen the lengths of the two fields; the
\* sub-negotiation succeeds only on the reply 01 00, and on any other pair of
\* bytes Socks5 fails and sends no CONNECT request.
C25_SubNegotiation ==
    /\ \A m \in AuthMessages :
        /\ m = <<1, Len(s5.auth.username)>> \o s5.auth.username
                    \o <<Len(s5.auth.password)>> \o s5.auth.password
        /\ Ulen(m) = Len(s5.auth.username) /\ Plen(m) = Len(s5.auth.password)
        /\ Len(m) = 3 + Ulen(m) + Plen(m)
    /\ (AuthMessages # {} /\ ConnectSent) => s5.pchRetA = <<1, 0>>
    /\ AuthReplyRead =>
        /\ s5.pchRetA = <<1, 0>> => ConnectSent
        /\ s5.pchRetA # <<1, 0>> =>
            /\ Sent = <<"greeting", "auth">>
            /\ Socks5Returned /\ s5.result = "false"
            /\ s5.log = "Proxy authentication unsuccessful"

\* the proxy answered 01 01 to the credentials: Socks5 failed with no CONNECT
\* request sent
C25_Witness ==
    /\ AuthReplyRead /\ s5.pchRetA = <<1, 1>>
    /\ <<1, 1, 97, 1, 98>> \in AuthMessages
    /\ Socks5Returned /\ s5.result = "false" /\ ~ConnectSent

\* the bytes of bound address a reply with address type atyp carries, L being
\* the length byte of a domain name
AddrBytes(atyp, L) ==
    CASE atyp = 1 -> 4 [] atyp = 4 -> 16 [] atyp = 3 -> 1 + L [] OTHER -> 0
\* the first 4 bytes of the CONNECT reply were read and passed the tests of
\* VER, REP and RSV
ReplyHeaderPassed ==
    /\ Len(s5.pchRet2) = 4
    /\ s5.pchRet2[1] = 5 /\ s5.pchRet2[2] = 0 /\ s5.pchRet2[3] = 0
ATYP == s5.pchRet2[4]

\* C26: on a successful CONNECT reply Socks5 consumes exactly 4 + N + 2 bytes
\* of it, with N = 4 for ATYP 01, 16 for ATYP 04 and 1 + L for ATYP 03, L
\* being the length byte (0 to 255, 0 included); for any other ATYP it fails
\* without reading more; the bytes read never exceed the 256-byte buffer.
C26_ReplyBytes ==
    /\ (Socks5Returned /\ s5.result = "true") =>
        /\ ReplyHeaderPassed /\ ATYP \in {1, 3, 4}
        /\ s5.nRecv \in 0..ByteMax
        /\ s5.consumed = 4 + AddrBytes(ATYP, s5.nRecv) + 2
    /\ (ReplyHeaderPassed /\ ATYP \notin {1, 3, 4}) =>
        /\ Socks5Returned /\ s5.result = "false" /\ s5.consumed = 4
        /\ s5.pchRet3 = <<>>
    /\ Len(s5.pchRet3) <= BufSize
    /\ (InRecv /\ ir.ret_to \in {"s5_dlen", "s5_addr", "s5_port"}) =>
            Len(ir.data) + ir.len <= BufSize

\* a reply with a domain name of length 0 was consumed: 4 + 1 + 2 bytes
C26_Witness ==
    /\ Socks5Returned /\ s5.result = "true" /\ ATYP = 3 /\ s5.nRecv = 0
    /\ s5.consumed = 7

\* the first 4 bytes of the CONNECT reply were read
ReplyHeaderRead == Len(s5.pchRet2) = 4
VER == s5.pchRet2[1]
REP == s5.pchRet2[2]
RSV == s5.pchRet2[3]

\* C27 as stated: whenever the RSV byte of the CONNECT reply is non-zero,
\* Socks5 fails with the malformed-reply error, whatever the REP byte is.
C27_Original ==
    (ReplyHeaderRead /\ RSV # 0) =>
        /\ Socks5Returned /\ s5.result = "false"
        /\ s5.log = "Error: malformed proxy response"

\* C27: whenever the RSV byte of the CONNECT reply is non-zero Socks5 fails,
\* reading nothing more; the error is the malformed-reply error when VER is 05
\* and REP is 00; a VER other than 05, and then a REP other than 00, are
\* tested before RSV and fail with their own errors.
C27_ReservedByte ==
    (ReplyHeaderRead /\ RSV # 0) =>
        /\ Socks5Returned /\ s5.result = "false" /\ s5.consumed = 4
        /\ s5.log = IF VER # 5 THEN "Proxy failed to accept request"
                    ELSE IF REP # 0 THEN "Socks5() connect failed"
                    ELSE "Error: malformed proxy response"

\* a reply 05 00 with a non-zero reserved byte failed as malformed
C27_Witness ==
    /\ ReplyHeaderRead /\ VER = 5 /\ REP = 0 /\ RSV # 0
    /\ Socks5Returned /\ s5.result = "false"
    /\ s5.log = "Error: malformed proxy response"

\* the message of each kind, as Socks5 builds it from its arguments
MessageOf(kind) ==
    CASE kind = "greeting" -> GreetingMsg(s5.auth)
      [] kind = "auth" -> AuthMsg(s5.auth)
      [] OTHER -> ConnectMsg(s5.strDest, s5.port)
SendErrors == {"Error sending to proxy", "Error sending authentication to proxy"}

\* C28: each message (greeting, username/password, CONNECT request) is handed
\* to send() whole, in one call; when that call returns less than the length
\* offered, or an error, Socks5 fails at once: it sends neither the rest nor
\* anything else, and does not start a read.
C28_SingleSend ==
    /\ \A i, j \in DOMAIN wire : Sent[i] = Sent[j] => i = j
    /\ \A i \in DOMAIN wire :
        /\ wire[i].msg = MessageOf(Sent[i])
        /\ wire[i].ret \in {SOCKET_ERROR} \cup (0..Len(wire[i].msg))
        /\ ~Whole(i) =>
            /\ i = Len(wire)
            /\ Socks5Returned /\ s5.result = "false" /\ s5.log \in SendErrors
            /\ s5.at \in {"s5_enter", "s5_greet", "s5_auth"}
    /\ (Socks5Returned /\ s5.log \in SendErrors) => ~AllSentWhole

\* the CONNECT request was cut short by send(): Socks5 failed, nothing was sent
\* after it and its reply was not read
C28_Witness ==
    /\ Socks5Returned /\ s5.result = "false" /\ s5.log = "Error sending to proxy"
    /\ Sent = <<"greeting", "auth", "connect">>
    /\ wire[3].ret = Len(wire[3].msg) - 1 /\ s5.pchRet2 = <<>>

\* Socks5 is running: it was entered and has not returned
Socks5Running == pc \notin {"idle", "done"} /\ s5.result = "none"
\* the return sites of Socks5 after a read
ReadSites == {"s5_greet", "s5_auth", "s5_reply", "s5_dlen", "s5_addr", "s5_port"}
\* a failure that Socks5 has met: each is a reason to return false
FailureMet ==
    \/ pc # "s5_enter" /\ s5 # NoS5 /\ Len(s5.strDest) > HostLimit
    \/ ~AllSentWhole
    \/ s5.recvr \notin {"OK", "none"}
    \/ s5.pchRet1 # <<>> /\ s5.recvr = "OK" /\ s5.pchRet1[1] # 5
    \/ s5.pchRet1 # <<>> /\ s5.recvr = "OK" /\ s5.pchRet1[2] # 0
            /\ ~(s5.pchRet1[2] = 2 /\ s5.auth.present)
    \/ s5.pchRet1 = <<5, 2>> /\ s5.auth.present
            /\ (Len(s5.auth.username) > CredLimit \/ Len(s5.auth.password) > CredLimit)
    \/ s5.pchRetA # <<>> /\ s5.recvr = "OK" /\ s5.pchRetA # <<1, 0>>
    \/ ReplyHeaderRead /\ (VER # 5 \/ REP # 0 \/ RSV # 0 \/ ATYP \notin {1, 3, 4})
\* what a call that failed at a step has sent and read: nothing past the step
StoppedAt(site) ==
    CASE site = "s5_enter" ->
            /\ Len(wire) <= 1 /\ s5.pchRet1 = <<>> /\ s5.recvr = "none"
            /\ s5.log = "Hostname too long" => wire = <<>>
      [] site = "s5_greet" ->
            /\ Len(wire) <= 2 /\ Whole(1) /\ s5.pchRetA = <<>> /\ s5.pchRet2 = <<>>
            /\ Len(wire) = 2 <=> s5.log \in SendErrors
      [] site = "s5_auth" ->
            /\ Len(wire) \in 2..3 /\ Whole(2) /\ s5.pchRet2 = <<>>
            /\ Len(wire) = 3 <=> s5.log \in SendErrors
      [] site = "s5_reply" ->
            /\ AllSentWhole /\ s5.consumed = Len(s5.pchRet2) /\ s5.pchRet3 = <<>>
      [] site = "s5_dlen" ->
            /\ AllSentWhole /\ s5.consumed <= 4 + 1
      [] site = "s5_addr" ->
            /\ AllSentWhole /\ s5.consumed <= 4 + AddrBytes(ATYP, s5.nRecv)
      [] OTHER ->
            /\ AllSentWhole /\ s5.consumed <= 4 + AddrBytes(ATYP, s5.nRecv) + 2
FailStopState ==
    /\ FailureMet => (Socks5Returned /\ s5.result = "false")
    /\ (Socks5Returned /\ s5.result = "false") =>
            /\ FailureMet /\ ir = NoFrame /\ StoppedAt(s5.at)
    /\ Socks5Running => ~FailureMet
FailStopStep ==
    /\ (s5.result = "none" /\ s5'.result = "false") =>
            /\ pc' = "done" /\ ir' = NoFrame
            /\ \/ wire' = wire
               \/ /\ Len(wire') = Len(wire) + 1 /\ SubSeq(wire', 1, Len(wire)) = wire
                  /\ wire'[Len(wire')].ret # Len(wire'[Len(wire')].msg)
    /\ (pc \in ReadSites /\ ir.result # "OK" /\ pc' # pc) =>
            /\ pc' = "done" /\ wire' = wire /\ s5'.result = "false"
    /\ pc = "done" => pc' = "idle"

\* C29: Socks5 stops at its first failure: when the hostname is too long, a
\* send is short, a read is not OK, the version is wrong, the method is not
\* acceptable, the authentication fails, REP or RSV is not 00 or ATYP is
\* unknown, the step that meets the failure returns false, and no send or
\* read follows it.
C29_FailStop == [](FailStopState) /\ [][FailStopStep]_vars

\* the authentication reply could not be read: Socks5 returned false with
\* the greeting and the credentials sent and no CONNECT request
C29_Witness ==
    /\ Socks5Returned /\ s5.result = "false" /\ s5.at = "s5_auth"
    /\ s5.recvr = "Disconnected"
    /\ Sent = <<"greeting", "auth">> /\ s5.pchRet2 = <<>> /\ ir = NoFrame

(***************************************************************************)
(* Claims about ConnectSocketDirectly and the answers of the operating     *)
(* system, checked under SpecPrim.                                         *)
(***************************************************************************)
\* the handle and the endpoint let the call reach connect()
ConnectIssuable == prim.h # INVALID_SOCKET /\ GetSockAddr(prim.addr)
\* connect() succeeded at once
ConnectedAtOnce == prim.os.connect # SOCKET_ERROR
\* connect() is pending, the wait reported an event and SO_ERROR reads 0
ConnectedAfterWait ==
    /\ prim.os.connect = SOCKET_ERROR /\ prim.os.nErr \in ConnectPending
    /\ prim.os.nRet >= 1
    /\ prim.os.gso # SOCKET_ERROR /\ prim.os.soErr = 0
\* connect() of a Windows build reports a socket that is connected already
ConnectedAlready ==
    /\ build = "win32"
    /\ prim.os.connect = SOCKET_ERROR /\ prim.os.nErr = "WSAEISCONN"
\* the wait is a select on a descriptor that does not fit in an fd_set
WaitUndefined ==
    /\ ConnectIssuable /\ ~IsSelectableSocket(prim.h)
    /\ prim.os.connect = SOCKET_ERROR /\ prim.os.nErr \in ConnectPending

C30_Original ==
    ConnectReturned =>
        /\ prim.r.ret <=> (ConnectIssuable /\ (ConnectedAtOnce \/ ConnectedAfterWait))
        /\ ~ConnectIssuable => ~prim.r.connect

\* C30: ConnectSocketDirectly issues connect unless the handle is invalid or
\* the endpoint cannot be serialized, and then returns false; it waits once,
\* and only when connect is pending (in progress, would block, WSAEINVAL);
\* where the wait is defined it returns true exactly when connect succeeded
\* at once, or connect is pending, the wait reported an event and the SO_ERROR
\* query succeeded with value 0, or a Windows build's connect reported an
\* already connected socket; the result is undefined exactly when a select
\* build waits on a descriptor that is not below FD_SETSIZE.
C30_ReturnsTrue ==
    ConnectReturned =>
        /\ prim.r.connect <=> ConnectIssuable
        /\ prim.r.wait <=>
            (ConnectIssuable /\ prim.os.connect = SOCKET_ERROR
                /\ prim.os.nErr \in ConnectPending)
        /\ prim.r.log = "undefined" <=> WaitUndefined
        /\ ~WaitUndefined =>
            (prim.r.ret <=>
                /\ ConnectIssuable
                /\ ConnectedAtOnce \/ ConnectedAfterWait \/ ConnectedAlready)

\* a pending connect that the wait and SO_ERROR report as established
C30_Witness ==
    /\ ConnectReturned /\ ConnectIssuable /\ ConnectedAfterWait /\ ~WaitUndefined
    /\ prim.r.ret /\ prim.r.connect /\ prim.r.wait

\* connect() was issued and failed with the error of a connected socket
AlreadyConnectedReported ==
    /\ ConnectReturned /\ ConnectIssuable
    /\ prim.os.connect = SOCKET_ERROR /\ prim.os.nErr = "WSAEISCONN"

C31_Original == AlreadyConnectedReported => prim.r.ret

\* C31: when connect() fails with the error of an already connected socket,
\* ConnectSocketDirectly of a Windows build returns true, without a wait and
\* without a message; in every other build it reports a connect failure (to
\* the sink that manual_connection selects) and returns false.
C31_AlreadyConnected ==
    AlreadyConnectedReported =>
        /\ prim.r.connect /\ ~prim.r.wait
        /\ prim.r.ret <=> build = "win32"
        /\ prim.r.log = IF build = "win32" THEN "none"
                        ELSE LogConnectFailure(prim.manual)

\* a Windows build took the already connected socket for a success
C31_Witness ==
    /\ AlreadyConnectedReported /\ build = "win32"
    /\ prim.r.ret /\ prim.r.connect /\ ~prim.r.wait /\ prim.r.log = "none"

(***************************************************************************)
(* Claims about the loop of InterruptibleRecv, checked under SpecRecv.     *)
(***************************************************************************)
\* the timeout of the wait the call is in
WaitBound ==
    pc = "ir_wait" =>
        /\ ir.timeout_ms = Min(ir.endTime - ir.curTime, maxWait)
        /\ ir.timeout_ms \in 1..maxWait
        /\ ir.ret = SOCKET_ERROR /\ ir.len > 0
\* a read that returned data and a wait that reported no error are followed
\* by the sample of the flag; the loop goes on only from a sample that found
\* the flag clear, and a sample that finds it set returns Interrupted
SampleStep ==
    /\ (pc = "ir_recv" /\ pc' # pc) =>
            \/ pc' = "ir_intr" /\ ir'.ret > 0
            \/ pc' = "ir_wait" /\ ir'.ret = SOCKET_ERROR
            \/ pc' = ir.ret_to /\ ir'.result \in {"Disconnected", "NetworkError"}
    /\ (pc = "ir_wait" /\ pc' # pc) =>
            \/ pc' = "ir_intr"
            \/ pc' = ir.ret_to /\ ir'.result = "NetworkError"
    /\ (InRecv /\ pc' = "ir_while" /\ pc # "ir_while") =>
            /\ pc = "ir_intr" /\ ~interruptSocks5Recv
            /\ ir'.curTime = now
    /\ (pc = "ir_intr" /\ interruptSocks5Recv /\ pc' # pc) =>
            /\ pc' = ir.ret_to /\ ir'.result = "Interrupted"

\* C32: every readiness wait of InterruptibleRecv is bounded by
\* min(endTime - curTime, 1000) milliseconds, a value from 1 to 1000; the
\* interrupt flag is sampled after every read and every wait after which the
\* loop continues, before it continues.
C32_WaitAndSample == [](WaitBound) /\ [][SampleStep]_vars

\* a second wait of a call, capped at maxWait with more time left
C32_Witness ==
    /\ pc = "ir_wait" /\ hist.waits >= 1
    /\ ir.endTime - ir.curTime > maxWait /\ ir.timeout_ms = maxWait

\* what a returned call tells of its loop: Timeout only with bytes missing at
\* or after the deadline, OK only with none missing; a call with bytes to read
\* and no time to read them makes no recv
TimeoutState ==
    /\ (RecvReturned /\ ir.result = "Timeout") =>
            /\ ir.len > 0 /\ ir.curTime >= ir.endTime
            /\ Len(ir.data) + ir.len = hist.len
    /\ (RecvReturned /\ ir.result = "OK") =>
            /\ ir.len = 0 /\ Len(ir.data) = hist.len
    /\ (RecvReturned /\ ir.timeout <= 0 /\ hist.len > 0) =>
            /\ ir.result = "Timeout" /\ ir.data = <<>>
            /\ hist.written \/ (hist.recvs = 0 /\ hist.waits = 0)
\* Timeout and OK are returned where the loop ends, and nowhere else: with
\* bytes missing it ends at the deadline and returns Timeout, with none
\* missing it returns OK whatever the time is
TimeoutStep ==
    /\ (pc = "ir_while" /\ pc' # pc) =>
            IF ir.len > 0 /\ ir.curTime < ir.endTime
            THEN pc' = "ir_recv"
            ELSE /\ pc' = ir.ret_to
                 /\ ir'.result = IF ir.len = 0 THEN "OK" ELSE "Timeout"
    /\ (pc \in {"ir_recv", "ir_wait", "ir_intr"} /\ pc' = ir.ret_to) =>
            ir'.result \in {"Disconnected", "NetworkError", "Interrupted"}

\* C33: InterruptibleRecv returns Timeout exactly when its loop ends with
\* bytes still missing, the time read last having reached the deadline (a
\* call with len > 0 and a timeout of 0 or less makes no recv and returns
\* Timeout); when the last missing bytes arrive in the iteration in which the
\* deadline passes and the flag is clear, it returns OK.
C33_Timeout == [](TimeoutState) /\ [][TimeoutStep]_vars

\* the last bytes arrived in the iteration in which the deadline passed
C33_Witness ==
    /\ RecvReturned /\ ir.result = "OK" /\ hist.len > 0
    /\ ir.timeout > 0 /\ ir.curTime >= ir.endTime

(***************************************************************************)
(* Claims about concurrent calls of ConnectThroughProxy, checked under     *)
(* SpecThreads.                                                            *)
(***************************************************************************)
\* the threads that have made their credentials
Credentialed == {t \in Threads : thr[t].got}
\* n after k increments
RECURSIVE IncrementN(_, _)
IncrementN(n, k) == IF k = 0 THEN n ELSE Increment(IncrementN(n, k - 1))

\* C34: under every interleaving of threads running ConnectThroughProxy with
\* randomize_credentials = true, no two calls obtain the same value of the
\* counter (nor the same credentials), and no increment is lost: the counter
\* has advanced once for each call that obtained a value, and the values
\* obtained are the successive values it went through.
C34_AtomicCounter ==
    /\ \A t, u \in Credentialed :
            t # u => /\ thr[t].value # thr[u].value
                     /\ thr[t].username # thr[u].username
    /\ counter = IncrementN(env.start, Cardinality(Credentialed))
    /\ {thr[t].value : t \in Credentialed} =
            {IncrementN(env.start, i) : i \in 0..(Cardinality(Credentialed) - 1)}
    /\ \A t \in Threads :
            /\ thr[t].got <=>
                    /\ thr[t].randomize_credentials
                    /\ thr[t].pc = "t_socks"
                            \/ (thr[t].pc = "t_done" /\ thr[t].username # <<>>)
            /\ thr[t].got => thr[t].username = Decimal(thr[t].value)

\* every thread is in its negotiation at the same time, each with a value of
\* its own
C34_Witness ==
    /\ \A t \in Threads : thr[t].pc = "t_socks" /\ thr[t].got
    /\ \A t, u \in Threads : t # u => thr[t].value # thr[u].value
    /\ counter = IncrementN(env.start, NThreads)

(***************************************************************************)
(* Claims about the descriptors waited on, checked under Spec, whose       *)
(* caller may hold any handle of HandleSet in a build that waits with      *)
(* select.                                                                 *)
(***************************************************************************)
\* the recv of the running InterruptibleRecv found no data on a descriptor
\* that select cannot wait on
RecvBlockedUnselectable ==
    /\ ir.ret = SOCKET_ERROR /\ hSocket \in open /\ ~IsSelectableSocket(hSocket)
\* the connect of ConnectThroughProxy waited on a descriptor that select
\* cannot wait on
ConnectWaitedUnselectable ==
    /\ ctp.csd.wait /\ ~IsSelectableSocket(ctp.hSocket)

\* C35: no readiness wait is made on a descriptor that is not selectable:
\* InterruptibleRecv returns NetworkError instead of waiting on it, and
\* ConnectSocketDirectly makes no wait on it, whatever handle the caller
\* passes.
C35_NoUnselectableWait ==
    /\ pc = "ir_wait" => IsSelectableSocket(hSocket)
    /\ RecvBlockedUnselectable => (ir.result = "NetworkError" /\ ~InRecv)
    /\ ~ConnectWaitedUnselectable

\* a pending connect on descriptor FD_SETSIZE went through FD_SET and select
C35_Witness ==
    /\ build = "select" /\ ctp.hSocket = FD_SETSIZE
    /\ ConnectWaitedUnselectable /\ ctp.csd.connect /\ ctp.csd.log = "undefined"

(***************************************************************************)
(* Claims about calls made while the interrupt flag is held true, checked  *)
(* under SpecHeld: there the flag is set between calls and never cleared,  *)
(* so a call that runs with the flag set has run with it set all along.    *)
(***************************************************************************)
\* what a read can return when the flag is true from its entry to its return
HeldResults == {"Interrupted", "Disconnected", "NetworkError"}

ProxyReached == pc # "idle" /\ ctp.csd.ret

\* C37: ConnectThroughProxy never stores false in the output
\* proxy_connection_failed: the only value it stores is true, when the
\* connect to the proxy failed; once the proxy is reached the output keeps the
\* value the caller put in it, when the call returns true and when the
\* negotiation fails.
C37_OutputKept ==
    /\ ctp.outProxyConnectionFailed # ctp.outBefore =>
            /\ ConnectFailed /\ ctp.result = "false"
            /\ ctp.outBefore = "false" /\ ctp.outProxyConnectionFailed = "true"
    /\ ctp.outProxyConnectionFailed = "false" => ctp.outBefore = "false"
    /\ ProxyReached => ctp.outProxyConnectionFailed = ctp.outBefore

\* the negotiation failed and the output the caller had set to true is true
C37_Witness ==
    /\ NegotiationFailed /\ s5.result = "false"
    /\ ctp.outBefore = "true" /\ ctp.outProxyConnectionFailed = "true"

(***************************************************************************)
(* Claims about the counter across calls, checked under SpecIso.           *)
(***************************************************************************)
\* the running or returned call has made its credentials of the counter
CounterTaken ==
    /\ ctp.randomize_credentials /\ ctp.csd.ret
    /\ pc \notin {"idle", "ctp_connect", "ctp_socks"}
\* the counter during and after a call, against what it was when the call began
CounterState ==
    pc # "idle" =>
        counter = IF CounterTaken THEN Increment(ctp.counterBefore)
                  ELSE ctp.counterBefore
\* the counter changes in one place, by one
CounterStep ==
    /\ counter' # counter =>
            /\ pc = "ctp_socks" /\ ctp.randomize_credentials /\ ctp.csd.ret
            /\ counter' = Increment(counter)
    /\ (pc = "ctp_socks" /\ pc' # pc /\ ctp.randomize_credentials) =>
            counter' = Increment(counter)

\* C38: a call of ConnectThroughProxy with randomize_credentials = true that
\* reached the proxy advances the counter by exactly one, whether the
\* negotiation then succeeds or fails; a call with randomize_credentials =
\* false and a call whose connect to the proxy failed leave it as it was.
C38_CounterFrame == [](CounterState) /\ [][CounterStep]_vars

\* a second randomized call whose negotiation failed advanced the counter
C38_Witness ==
    /\ NegotiationFailed /\ ctp.randomize_credentials /\ calls.n = 2
    /\ counter = Increment(ctp.counterBefore)

====
